---- MODULE Spec2Model ----
(***************************************************************************)
(* Model of the tag cache of sb (src/sb.py) and of the commands that read  *)
(* and write it.                                                           *)
(*                                                                         *)
(* The cache file /srv/git/sb/cache.json is modelled by its text: absent,  *)
(* a JSON object (its members in document order), a JSON document whose    *)
(* top level is not an object, or text that is not JSON at all.  Python    *)
(* values read from it are modelled with their type, so that the           *)
(* exceptions raised by json.load, dict.get and item assignment are        *)
(* outcomes of the model.                                                  *)
(***************************************************************************)
EXTENDS Integers, Sequences, FiniteSets, TLC

VARIABLES
    file,        \* text of SB_CACHE_FILE
    call,        \* the last call made on the cache functions, with its outcome
    head,        \* per git repository: HEAD hash, or why git rev-parse fails
    pc,          \* position of the sb process
    repo_info,   \* handle_list_async: the repositories to list
    idx,         \* handle_list_async: index of the repository being handled
    command,     \* the command prepare_ansible_list_tags returned
    output,      \* what the --list-tags subprocess printed
    handed,      \* what tag_parser handed to handle_list_async
    exit,        \* how the last sb process ended
    put_paths,   \* the repo paths update_cache has been called with
    procs        \* the sb processes that run side by side or one in another

vars == <<file, call, head, pc, repo_info, idx, command, output, handed, exit,
          put_paths, procs>>

cli_vars == <<head, pc, repo_info, idx, command, output, handed, exit,
              procs>>

----------------------------------------------------------------------------
(* Bounds and input domains *)

MaxTagLen == 2

TagOrder == <<"x", "y", "z">>

Tags == {TagOrder[i] : i \in 1..Len(TagOrder)}

Hashes == {"abc", "def"}

TagRank(t) == CHOOSE i \in 1..Len(TagOrder) : TagOrder[i] = t

\* lists of at most MaxTagLen tags, each tag once, in the order
\* ansible-playbook prints them (sorted)
SortedTagLists ==
    UNION {{s \in [1..n -> Tags] :
               \A i, j \in 1..n : i < j => TagRank(s[i]) < TagRank(s[j])}
           : n \in 0..MaxTagLen}

Reversed(s) == [i \in 1..Len(s) |-> s[Len(s) + 1 - i]]

\* tag lists given to update_cache: sorted either way
TagLists == SortedTagLists \cup {Reversed(s) : s \in SortedTagLists}

\* requested tag lists: sorted lists, and a tag requested twice
RequestLists == SortedTagLists \cup {<<t, t>> : t \in Tags}

----------------------------------------------------------------------------
(* Program constants *)

SALTBOX_REPO_PATH == "/srv/git/saltbox"

SANDBOX_REPO_PATH == "/opt/sandbox"

SALTBOXMOD_REPO_PATH == "/opt/saltbox_mod"

\* the repositories whose tags are cached
RepoPaths == {SALTBOX_REPO_PATH, SANDBOX_REPO_PATH}

----------------------------------------------------------------------------
(* File text and Python values *)

NoFile == [kind |-> "missing", members |-> <<>>]

\* text json.load rejects, such as an empty or truncated document
InvalidText == [kind |-> "invalid", members |-> <<>>]

\* a JSON document whose top level is an array: "[]"
ArrayText == [kind |-> "array", members |-> <<>>]

\* a JSON object; members is the sequence of its <<key, value>> members
ObjectText(members) == [kind |-> "object", members |-> members]

PyDict(items) == [type |-> "dict", items |-> items]

PyList == [type |-> "list", items |-> <<>>]

\* the empty dict {} as an entry; a stored entry is [commit |-> h, tags |-> t]
EmptyDict == <<>>

Entry(commit_hash, tags) == [commit |-> commit_hash, tags |-> tags]

Return(v) == [exc |-> "none", ret |-> v]

Raise(e) == [exc |-> e, ret |-> EmptyDict]

----------------------------------------------------------------------------
(* dict: items kept in insertion order, keys unique *)

Range(s) == {s[i] : i \in 1..Len(s)}

dict_keys(items) == {items[i][1] : i \in 1..Len(items)}

\* d.get(key, default)
dict_get(items, key, default) ==
    IF key \in dict_keys(items)
    THEN items[CHOOSE i \in 1..Len(items) : items[i][1] = key][2]
    ELSE default

\* mutant: an existing key keeps its old value (setdefault)
dict_setitem_keep(items, key, value) ==
    IF key \in dict_keys(items) THEN items
    ELSE Append(items, <<key, value>>)

\* mutant: the pair is appended even when the key exists
dict_setitem_append(items, key, value) == Append(items, <<key, value>>)

\* d[key] = value: an existing key keeps its place, a new key goes last
dict_setitem(items, key, value) ==
    IF key \in dict_keys(items)
    THEN [i \in 1..Len(items) |->
             IF items[i][1] = key THEN <<key, value>> ELSE items[i]]
    ELSE Append(items, <<key, value>>)

\* the dict json.load builds from the members of an object, in document order
RECURSIVE dict_from_members(_)
dict_from_members(members) ==
    IF members = <<>> THEN <<>>
    ELSE LET n == Len(members)
         IN dict_setitem(dict_from_members(SubSeq(members, 1, n - 1)),
                         members[n][1], members[n][2])

\* mutant: text that does not parse is read as the empty object
json_load_lenient(f) ==
    CASE f.kind = "object" -> Return(PyDict(dict_from_members(f.members)))
      [] f.kind = "array"  -> Return(PyList)
      [] OTHER             -> Return(PyDict(<<>>))

\* json.load(cache_file) on an existing file
json_load(f) ==
    CASE f.kind = "object" -> Return(PyDict(dict_from_members(f.members)))
      [] f.kind = "array"  -> Return(PyList)
      [] OTHER             -> Raise("JSONDecodeError")

\* json.dump(cache, cache_file) into the file opened with "w"
json_dump(d) == ObjectText(d.items)

----------------------------------------------------------------------------
(* The cache functions *)

\* mutant: FileNotFoundError is not caught
get_cached_tags_nocatch(f, repo_path) ==
    IF f.kind = "missing" THEN Raise("FileNotFoundError")
    ELSE LET cache == json_load(f)
         IN IF cache.exc # "none" THEN Raise(cache.exc)
            ELSE IF cache.ret.type # "dict" THEN Raise("AttributeError")
            ELSE Return(dict_get(cache.ret.items, repo_path, EmptyDict))

get_cached_tags(f, repo_path) ==
    IF f.kind = "missing" THEN Return(EmptyDict)
    ELSE LET cache == json_load(f)
         IN IF cache.exc # "none" THEN Raise(cache.exc)
            ELSE IF cache.ret.type # "dict" THEN Raise("AttributeError")
            ELSE Return(dict_get(cache.ret.items, repo_path, EmptyDict))

\* mutant: the mapping written holds the new entry only
update_cache_overwrite(f, repo_path, commit_hash, tags) ==
    LET cache == IF f.kind = "missing" THEN Return(PyDict(<<>>))
                 ELSE json_load(f)
    IN IF cache.exc # "none" THEN [exc |-> cache.exc, file |-> f]
       ELSE IF cache.ret.type # "dict" THEN [exc |-> "TypeError", file |-> f]
       ELSE [exc  |-> "none",
             file |-> json_dump(PyDict(dict_setitem(
                          <<>>, repo_path, Entry(commit_hash, tags))))]

\* result: the exception raised ("none" when it returns) and the file left
update_cache(f, repo_path, commit_hash, tags) ==
    LET cache == IF f.kind = "missing" THEN Return(PyDict(<<>>))
                 ELSE json_load(f)
    IN IF cache.exc # "none" THEN [exc |-> cache.exc, file |-> f]
       ELSE IF cache.ret.type # "dict" THEN [exc |-> "TypeError", file |-> f]
       ELSE [exc  |-> "none",
             file |-> json_dump(PyDict(dict_setitem(
                          cache.ret.items, repo_path,
                          Entry(commit_hash, tags))))]

\* mutant: the difference is taken the wrong way round
check_cache_swapped(f, repo_path, tags) ==
    LET cache == get_cached_tags(f, repo_path)
    IN IF cache.exc # "none"
       THEN [exc |-> cache.exc, ok |-> FALSE, missing |-> {}]
       ELSE IF cache.ret = EmptyDict
       THEN [exc |-> "none", ok |-> TRUE, missing |-> {}]
       ELSE LET cached_tags == IF "tags" \in DOMAIN cache.ret
                               THEN Range(cache.ret.tags) ELSE {}
                missing_tags == cached_tags \ Range(tags)
            IN [exc |-> "none", ok |-> missing_tags = {},
                missing |-> missing_tags]

\* mutant: without an entry every requested tag is reported missing
check_cache_strict(f, repo_path, tags) ==
    LET cache == get_cached_tags(f, repo_path)
    IN IF cache.exc # "none"
       THEN [exc |-> cache.exc, ok |-> FALSE, missing |-> {}]
       ELSE LET cached_tags == IF "tags" \in DOMAIN cache.ret
                               THEN Range(cache.ret.tags) ELSE {}
                missing_tags == Range(tags) \ cached_tags
            IN [exc |-> "none", ok |-> missing_tags = {},
                missing |-> missing_tags]

\* result: the exception raised, the boolean and the set missing_tags
check_cache(f, repo_path, tags) ==
    LET cache == get_cached_tags(f, repo_path)
    IN IF cache.exc # "none"
       THEN [exc |-> cache.exc, ok |-> FALSE, missing |-> {}]
       ELSE IF cache.ret = EmptyDict
       THEN [exc |-> "none", ok |-> TRUE, missing |-> {}]
       ELSE LET cached_tags == IF "tags" \in DOMAIN cache.ret
                               THEN Range(cache.ret.tags) ELSE {}
                missing_tags == Range(tags) \ cached_tags
            IN [exc |-> "none", ok |-> missing_tags = {},
                missing |-> missing_tags]

\* list(missing_tags): the elements of the set once each, in some order
ListsOf(S) ==
    {s \in [1..Cardinality(S) -> S] : Range(s) = S}

----------------------------------------------------------------------------
(* The cache functions called one at a time with arbitrary arguments *)

NoCall ==
    [op |-> "none", repo_path |-> "", commit_hash |-> "", tags |-> <<>>,
     pre |-> "none", repeat |-> FALSE, exc |-> "none", ret |-> EmptyDict]

\* idle values of the variables of the sb process
\* no process is modelled on its own
NoProcs == <<>>

NoCommand == "unset"

NoTags == [kind |-> "none", tags |-> <<>>]

NoOutput == [found |-> FALSE, tokens |-> <<>>]

NoExit == [status |-> 0, exc |-> "none", at |-> "none"]

InitCache ==
    /\ file \in {NoFile, ObjectText(<<>>), InvalidText, ArrayText}
    /\ call = NoCall
    /\ put_paths = {}
    /\ head = [r \in RepoPaths |-> "abc"]
    /\ pc = "idle"
    /\ repo_info = <<>>
    /\ idx = 0
    /\ command = NoCommand
    /\ output = NoOutput
    /\ handed = NoTags
    /\ exit = NoExit
    /\ procs = NoProcs

CallGetCachedTags(repo_path) ==
    LET res == get_cached_tags(file, repo_path)
    IN /\ call' = [op |-> "get_cached_tags", repo_path |-> repo_path,
                   commit_hash |-> "", tags |-> <<>>, pre |-> file.kind,
                   repeat |-> FALSE, exc |-> res.exc, ret |-> res.ret]
       /\ UNCHANGED <<file, put_paths, cli_vars>>

CallUpdateCache(repo_path, commit_hash, tags) ==
    LET res == update_cache(file, repo_path, commit_hash, tags)
    IN /\ file' = res.file
       /\ call' = [op |-> "update_cache", repo_path |-> repo_path,
                   commit_hash |-> commit_hash, tags |-> tags,
                   pre |-> file.kind,
                   repeat |-> /\ call.op = "update_cache"
                              /\ call.exc = "none"
                              /\ call.repo_path = repo_path
                              /\ call.commit_hash = commit_hash
                              /\ call.tags = tags,
                   exc |-> res.exc, ret |-> EmptyDict]
       /\ put_paths' = put_paths \cup {repo_path}
       /\ UNCHANGED cli_vars

CallCheckCache(repo_path, tags) ==
    LET res == check_cache(file, repo_path, tags)
    IN /\ \E missing \in ListsOf(res.missing) :
              call' = [op |-> "check_cache", repo_path |-> repo_path,
                       commit_hash |-> "", tags |-> tags, pre |-> file.kind,
                       repeat |-> FALSE, exc |-> res.exc,
                       ret |-> <<res.ok, missing>>]
       /\ UNCHANGED <<file, put_paths, cli_vars>>

NextCache ==
    \/ \E r \in RepoPaths : CallGetCachedTags(r)
    \/ \E r \in RepoPaths, h \in Hashes, t \in TagLists :
           CallUpdateCache(r, h, t)
    \/ \E r \in RepoPaths, t \in RequestLists : CallCheckCache(r, t)

SpecCache == InitCache /\ [][NextCache]_vars

\* the entry get_cached_tags finds in text f; the keys of text f
EntryOf(f, repo_path) == get_cached_tags(f, repo_path).ret

KeysOf(f) == IF f.kind = "object" THEN dict_keys(dict_from_members(f.members))
             ELSE {}

WellFormed(kind) == kind \in {"missing", "object"}

Malformed(kind) == kind \in {"invalid", "array"}

----------------------------------------------------------------------------
(* git rev-parse HEAD and ansible-playbook --list-tags *)

\* a repository: its HEAD hash, or "broken" when git rev-parse HEAD fails
RepoStates == Hashes \cup {"broken"}

\* return codes of a failed git: exit codes, and minus the signal number
GitReturnCodes == {1, 128, -9}

\* the ways subprocess.run fails on a broken repository: the folder is not
\* there, or git ends with a return code other than 0
GitFailures ==
    {[exc |-> "FileNotFoundError", returncode |-> 0]}
    \cup {[exc |-> "CalledProcessError", returncode |-> rc]
           : rc \in GitReturnCodes}

\* sys.exit(code): the exit status is the low byte of the code
sys_exit(code) == code % 256

\* mutant: a failed git yields the empty hash
get_git_commit_hash_guess(repo_state, failure) ==
    IF repo_state = "broken"
    THEN [exit |-> FALSE, status |-> 0, ret |-> ""]
    ELSE [exit |-> FALSE, status |-> 0, ret |-> repo_state]

get_git_commit_hash(repo_state, failure) ==
    CASE repo_state = "broken" /\ failure.exc = "FileNotFoundError" ->
             [exit |-> TRUE, status |-> sys_exit(1), ret |-> ""]
      [] repo_state = "broken" /\ failure.exc = "CalledProcessError" ->
             [exit |-> TRUE, status |-> sys_exit(failure.returncode),
              ret |-> ""]
      [] OTHER ->
             [exit |-> FALSE, status |-> 0, ret |-> repo_state]

\* the pieces between the commas of the TASK TAGS line, brackets removed
\* and each piece stripped; "" is a piece of white space only
TokenLists ==
    {<<"">>} \cup (SortedTagLists \ {<<>>}) \cup {<<t, "">> : t \in Tags}

\* the subprocess output: whether a line holds "TASK TAGS:", and its pieces
AnsibleOutputs ==
    {NoOutput} \cup {[found |-> TRUE, tokens |-> t] : t \in TokenLists}

\* [tag.strip() for tag in task_tags.split(',') if tag.strip()]
parse_tags(tokens) == SelectSeq(tokens, LAMBDA t : t # "")

\* mutant: an entry is taken as current whatever its commit
commit_is_current_any(cache, current_commit) == "commit" \in DOMAIN cache

\* mutant: the hash is looked up under a key the entries do not have
commit_is_current_hash(cache, current_commit) ==
    "hash" \in DOMAIN cache /\ cache.hash = current_commit

\* cache.get("commit") == current_commit; None equals no string
commit_is_current(cache, current_commit) ==
    "commit" \in DOMAIN cache /\ cache.commit = current_commit

\* mutant: the tags of the entry in the file are returned when there is one
parse_output_stale(f, repo_state, failure, repo_path, out) ==
    IF ~out.found
    THEN [kind |-> "error", tags |-> <<>>, file |-> f, status |-> 0,
          exc |-> "none", put |-> FALSE]
    ELSE LET tags == parse_tags(out.tokens)
             old == get_cached_tags(f, repo_path).ret
             git == get_git_commit_hash(repo_state, failure)
             upd == update_cache(f, repo_path, git.ret, tags)
         IN IF repo_path = SALTBOXMOD_REPO_PATH
            THEN [kind |-> "tags", tags |-> tags, file |-> f, status |-> 0,
                  exc |-> "none", put |-> FALSE]
            ELSE IF git.exit
            THEN [kind |-> "exit", tags |-> <<>>, file |-> f,
                  status |-> git.status, exc |-> "SystemExit", put |-> FALSE]
            ELSE IF upd.exc # "none"
            THEN [kind |-> "raise", tags |-> <<>>, file |-> upd.file,
                  status |-> 1, exc |-> upd.exc, put |-> TRUE]
            ELSE [kind |-> "tags",
                  tags |-> IF old = EmptyDict THEN tags ELSE old.tags,
                  file |-> upd.file, status |-> 0, exc |-> "none",
                  put |-> TRUE]

\* mutant: the tags are returned and the cache file is left alone
parse_output_nowrite(f, repo_state, failure, repo_path, out) ==
    IF ~out.found
    THEN [kind |-> "error", tags |-> <<>>, file |-> f, status |-> 0,
          exc |-> "none", put |-> FALSE]
    ELSE LET tags == parse_tags(out.tokens)
             git == get_git_commit_hash(repo_state, failure)
         IN IF repo_path # SALTBOXMOD_REPO_PATH /\ git.exit
            THEN [kind |-> "exit", tags |-> <<>>, file |-> f,
                  status |-> git.status, exc |-> "SystemExit", put |-> FALSE]
            ELSE [kind |-> "tags", tags |-> tags, file |-> f, status |-> 0,
                  exc |-> "none", put |-> FALSE]

\* mutant: output without a TASK TAGS line is taken as an empty tag list,
\* which is cached, and the error is returned
parse_output_empty(f, repo_state, failure, repo_path, out) ==
    LET tags == IF out.found THEN parse_tags(out.tokens) ELSE <<>>
        git == get_git_commit_hash(repo_state, failure)
        upd == update_cache(f, repo_path, git.ret, tags)
        kind == IF out.found THEN "tags" ELSE "error"
    IN IF repo_path = SALTBOXMOD_REPO_PATH
       THEN [kind |-> kind, tags |-> tags, file |-> f, status |-> 0,
             exc |-> "none", put |-> FALSE]
       ELSE IF git.exit
       THEN [kind |-> "exit", tags |-> <<>>, file |-> f,
             status |-> git.status, exc |-> "SystemExit", put |-> FALSE]
       ELSE IF upd.exc # "none"
       THEN [kind |-> "raise", tags |-> <<>>, file |-> upd.file,
             status |-> 1, exc |-> upd.exc, put |-> TRUE]
       ELSE [kind |-> kind, tags |-> tags, file |-> upd.file,
             status |-> 0, exc |-> "none", put |-> TRUE]

\* parse_output(output) of the closure made for repo_path.
\* kind: "tags" (the list is returned), "error" (the error string is
\* returned), "exit" (sys.exit in get_git_commit_hash), "raise"
parse_output(f, repo_state, failure, repo_path, out) ==
    IF ~out.found
    THEN [kind |-> "error", tags |-> <<>>, file |-> f, status |-> 0,
          exc |-> "none", put |-> FALSE]
    ELSE LET tags == parse_tags(out.tokens)
             git == get_git_commit_hash(repo_state, failure)
             upd == update_cache(f, repo_path, git.ret, tags)
         IN IF repo_path = SALTBOXMOD_REPO_PATH
            THEN [kind |-> "tags", tags |-> tags, file |-> f, status |-> 0,
                  exc |-> "none", put |-> FALSE]
            ELSE IF git.exit
            THEN [kind |-> "exit", tags |-> <<>>, file |-> f,
                  status |-> git.status, exc |-> "SystemExit", put |-> FALSE]
            ELSE IF upd.exc # "none"
            THEN [kind |-> "raise", tags |-> <<>>, file |-> upd.file,
                  status |-> 1, exc |-> upd.exc, put |-> TRUE]
            ELSE [kind |-> "tags", tags |-> tags, file |-> upd.file,
                  status |-> 0, exc |-> "none", put |-> TRUE]

\* mutant: an entry of Saltbox_mod in the cache file is taken as current
prepare_ansible_list_tags_mod(f, repo_state, failure, repo_path) ==
    LET cache == get_cached_tags(f, repo_path)
        git == get_git_commit_hash(repo_state, failure)
    IN IF repo_path = SALTBOXMOD_REPO_PATH
       THEN [kind |-> "ok",
             command |-> cache.exc # "none" \/ "commit" \notin DOMAIN cache.ret,
             cache |-> cache.ret,
             current_commit |-> "", status |-> 0, exc |-> "none"]
       ELSE IF cache.exc # "none"
       THEN [kind |-> "raise", command |-> FALSE, cache |-> EmptyDict,
             current_commit |-> "", status |-> 1, exc |-> cache.exc]
       ELSE IF git.exit
       THEN [kind |-> "exit", command |-> FALSE, cache |-> cache.ret,
             current_commit |-> "", status |-> git.status,
             exc |-> "SystemExit"]
       ELSE [kind |-> "ok",
             command |-> ~commit_is_current(cache.ret, git.ret),
             cache |-> cache.ret, current_commit |-> git.ret,
             status |-> 0, exc |-> "none"]

\* prepare_ansible_list_tags(repo_path, ...).
\* kind: "ok" (command is FALSE when None is returned with the lambda over
\* cache, TRUE when the --list-tags command is returned with parse_output),
\* "exit" (sys.exit in get_git_commit_hash), "raise"
prepare_ansible_list_tags(f, repo_state, failure, repo_path) ==
    LET cache == get_cached_tags(f, repo_path)
        git == get_git_commit_hash(repo_state, failure)
    IN IF repo_path = SALTBOXMOD_REPO_PATH
       THEN [kind |-> "ok", command |-> TRUE, cache |-> EmptyDict,
             current_commit |-> "", status |-> 0, exc |-> "none"]
       ELSE IF cache.exc # "none"
       THEN [kind |-> "raise", command |-> FALSE, cache |-> EmptyDict,
             current_commit |-> "", status |-> 1, exc |-> cache.exc]
       ELSE IF git.exit
       THEN [kind |-> "exit", command |-> FALSE, cache |-> cache.ret,
             current_commit |-> "", status |-> git.status,
             exc |-> "SystemExit"]
       ELSE [kind |-> "ok",
             command |-> ~commit_is_current(cache.ret, git.ret),
             cache |-> cache.ret, current_commit |-> git.ret,
             status |-> 0, exc |-> "none"]

----------------------------------------------------------------------------
(* The list command *)

Init ==
    /\ file \in {NoFile, InvalidText, ArrayText}
    /\ call = NoCall
    /\ put_paths = {}
    /\ head \in [RepoPaths -> RepoStates]
    /\ pc = "idle"
    /\ repo_info = <<>>
    /\ idx = 0
    /\ command = NoCommand
    /\ output = NoOutput
    /\ handed = NoTags
    /\ exit = NoExit
    /\ procs = NoProcs

\* the repository handle_list_async is at, and the state git finds it in
Repo == repo_info[idx]

RepoState(repo_path) ==
    IF repo_path \in RepoPaths THEN head[repo_path] ELSE "broken"

\* the process ends in function at: sys.exit, an uncaught exception, or main
\* returns; what the process held in memory is gone
Terminate(status, exc, at) ==
    /\ pc' = "exit"
    /\ exit' = [status |-> status, exc |-> exc, at |-> at]
    /\ repo_info' = <<>>
    /\ idx' = 0
    /\ command' = NoCommand
    /\ output' = NoOutput
    /\ handed' = NoTags

\* the loop of handle_list_async goes to the next repository, if any, after
\* tag_parser has handed over tags (or an error) for the command cmd
NextRepo(cmd, out, tags) ==
    /\ pc' = "list"
    /\ idx' = idx + 1
    /\ command' = cmd
    /\ output' = out
    /\ handed' = tags
    /\ UNCHANGED <<repo_info, exit>>

\* the loop is over: handle_list and main return
handle_list_return ==
    /\ pc = "list"
    /\ idx > Len(repo_info)
    /\ Terminate(0, "none", "main")
    /\ UNCHANGED <<file, call, head, put_paths, procs>>

\* sb list is started; os.path.isdir(SALTBOXMOD_REPO_PATH) is mod_exists
handle_list(mod_exists) ==
    /\ pc \in {"idle", "exit"}
    /\ pc' = "list"
    /\ repo_info' = IF mod_exists
                    THEN <<SALTBOX_REPO_PATH, SANDBOX_REPO_PATH,
                           SALTBOXMOD_REPO_PATH>>
                    ELSE <<SALTBOX_REPO_PATH, SANDBOX_REPO_PATH>>
    /\ idx' = 1
    /\ command' = NoCommand
    /\ output' = NoOutput
    /\ handed' = NoTags
    /\ exit' = NoExit
    /\ UNCHANGED <<file, call, head, put_paths, procs>>

\* one pass of the loop up to the await: prepare_ansible_list_tags, and when
\* it returns no command the cached tags are taken and printed
handle_list_prepare(failure) ==
    /\ pc = "list"
    /\ idx <= Len(repo_info)
    /\ LET res == prepare_ansible_list_tags(file, RepoState(Repo), failure,
                                            Repo)
       IN CASE res.kind # "ok" ->
                  Terminate(res.status, res.exc, "prepare_ansible_list_tags")
            [] res.kind = "ok" /\ res.command ->
                  /\ pc' = "await"
                  /\ command' = "list-tags"
                  /\ UNCHANGED <<repo_info, idx, output, handed, exit>>
            [] OTHER ->
                  NextRepo("None", output,
                           [kind |-> "tags", tags |-> res.cache.tags])
    /\ UNCHANGED <<file, call, head, put_paths, procs>>

\* the subprocess has ended with output out: tag_parser(stdout.decode()),
\* then the tags or the error are printed
handle_list_parse(out, failure) ==
    /\ pc = "await"
    /\ LET res == parse_output(file, RepoState(Repo), failure, Repo, out)
       IN /\ file' = res.file
          /\ put_paths' = IF res.put THEN put_paths \cup {Repo} ELSE put_paths
          /\ IF res.kind \in {"exit", "raise"}
             THEN Terminate(res.status, res.exc, "parse_output")
             ELSE NextRepo(command, out,
                           [kind |-> res.kind, tags |-> res.tags])
    /\ UNCHANGED <<call, head, procs>>

\* outside sb: a commit, a checkout, a removed or broken repository
GitChange(repo_path, repo_state) ==
    /\ head[repo_path] # repo_state
    /\ head' = [head EXCEPT ![repo_path] = repo_state]
    /\ UNCHANGED <<procs, file, call, pc, repo_info, idx, command, output, handed,
                   exit, put_paths>>

Next ==
    \/ \E mod_exists \in BOOLEAN : handle_list(mod_exists)
    \/ handle_list_return
    \/ \E failure \in GitFailures : handle_list_prepare(failure)
    \/ \E out \in AnsibleOutputs, failure \in GitFailures :
           handle_list_parse(out, failure)
    \/ \E r \in RepoPaths, s \in RepoStates : GitChange(r, s)

Spec == Init /\ [][Next]_vars

----------------------------------------------------------------------------
(* The update and branch commands *)

\* an exception nothing catches ends the process with status 1
Uncaught(exc) == [exc |-> exc, status |-> 1]

\* how the commands manage_ansible_venv runs end: all of them well, the
\* release is not a supported one, or one of them fails
VenvOutcomes == {"done", "unsupported", "failed"}

\* manage_ansible_venv(False). SALTBOX_USER, which the last command is made
\* of, is bound nowhere in sb.py: when the commands before it have ended
\* well the lookup raises NameError.
manage_ansible_venv(outcome) ==
    CASE outcome = "unsupported" -> [exc |-> "SystemExit", status |-> sys_exit(1)]
      [] outcome = "failed" -> Uncaught("CalledProcessError")
      [] OTHER -> Uncaught("NameError")

\* git_fetch_and_reset(repo_path, branch, ...): git rev-parse --abbrev-ref
\* HEAD fails on a broken repository; on any other the list of commands is
\* made, with SALTBOX_USER in the last of them, before one of them runs
git_fetch_and_reset(repo_state, failure) ==
    IF repo_state = "broken"
    THEN Uncaught(failure.exc)
    ELSE Uncaught("NameError")

\* update_saltbox(SALTBOX_REPO_PATH, ...): the folder is checked, then
\* manage_ansible_venv runs and does not return
update_saltbox(repo_state, failure, outcome) ==
    IF repo_state = "broken" /\ failure.exc = "FileNotFoundError"
    THEN [exc |-> "SystemExit", status |-> sys_exit(1), at |-> "update_saltbox"]
    ELSE [exc |-> manage_ansible_venv(outcome).exc,
          status |-> manage_ansible_venv(outcome).status,
          at |-> "manage_ansible_venv"]

\* sb update: handle_update calls update_saltbox, which ends the process;
\* update_sandbox is not reached
handle_update(failure, outcome) ==
    /\ pc \in {"idle", "exit"}
    /\ LET res == update_saltbox(head[SALTBOX_REPO_PATH], failure, outcome)
       IN Terminate(res.status, res.exc, res.at)
    /\ UNCHANGED <<file, call, head, put_paths, procs>>

\* sb branch (repo_path is SALTBOX_REPO_PATH) and sb sandbox-branch
\* (SANDBOX_REPO_PATH): git_fetch_and_reset is the first call of
\* handle_branch and handle_sandbox_branch, and it ends the process
handle_branch(repo_path, failure) ==
    /\ pc \in {"idle", "exit"}
    /\ LET res == git_fetch_and_reset(head[repo_path], failure)
       IN Terminate(res.status, res.exc, "git_fetch_and_reset")
    /\ UNCHANGED <<file, call, head, put_paths, procs>>

----------------------------------------------------------------------------
(* The install command *)

\* a piece of the tags argument between commas, stripped: the prefix
\* tag.startswith finds, and what follows it; "" is a piece of white space
Prefixes == {"", "mod-", "sandbox-"}

RequestNames == {"", "x", "y"}

Pieces ==
    {p \in [prefix : Prefixes, name : RequestNames] :
        /\ p.name = "" => p.prefix = ""
        /\ p.prefix = "mod-" => p.name = "x"}

\* an extra variable, by what handle_install and run_ansible_playbook tell
\* apart: "cache" and "cache_true" start with sanity_check_use_cache=,
\* "pair" is another key=value, "value" is JSON but no object, "bad" is
\* neither JSON nor key=value
ExtraVarKinds == {"cache", "cache_true", "pair", "value", "bad"}

\* the extra variables that start with sanity_check_use_cache=: "cache" is
\* sanity_check_use_cache=false, "cache_true" is sanity_check_use_cache=true
CacheVars == {"cache", "cache_true"}

\* return codes of a failed ansible-playbook: an exit code, and minus the
\* signal number
PlaybookReturnCodes == {2, -9}

\* how one ansible-playbook run ends: Ctrl-C, or a return code
PlaybookOutcomes ==
    {[interrupt |-> TRUE, returncode |-> 0]}
    \cup {[interrupt |-> FALSE, returncode |-> rc]
            : rc \in {0} \cup PlaybookReturnCodes}

\* [tag.strip() for arg in arguments.tags for tag in arg.split(',')
\*  if tag.strip()]
strip_tags(pieces) ==
    SelectSeq(pieces, LAMBDA t : ~(t.prefix = "" /\ t.name = ""))

\* the loop over tags: the tags of one prefix, the prefix cut off
group_tags(tags, prefix) ==
    LET sel == SelectSeq(tags, LAMBDA t : t.prefix = prefix)
    IN [i \in 1..Len(sel) |-> sel[i].name]

\* mutant: only sanity_check_use_cache=false bypasses the validation
ignore_cache_of_false(extra_vars) ==
    \E i \in DOMAIN extra_vars : extra_vars[i] = "cache"

\* any(var.startswith("sanity_check_use_cache=") for var in extra_vars)
ignore_cache_of(extra_vars) ==
    \E i \in DOMAIN extra_vars : extra_vars[i] \in CacheVars

\* check_tag_existence(repo_path, tag): tag in cache.get("tags", [])
check_tag_existence(f, repo_path, tag) ==
    LET cache == get_cached_tags(f, repo_path).ret
    IN "tags" \in DOMAIN cache /\ tag \in Range(cache.tags)

\* mutant: a tag found in the Saltbox entry yields no suggestion, whatever
\* the prefix
suggestion_for_silent(f, tag, prefix) ==
    IF check_tag_existence(f, SANDBOX_REPO_PATH, tag)
    THEN <<[prefix |-> prefix, tag |-> tag, advice |-> "use sandbox-"]>>
    ELSE IF check_tag_existence(f, SALTBOX_REPO_PATH, tag)
    THEN <<>>
    ELSE <<[prefix |-> prefix, tag |-> tag, advice |-> "use -e"]>>

\* the suggestion validate_and_suggest makes for a missing tag, if any
suggestion_for(f, tag, prefix) ==
    IF check_tag_existence(f, SANDBOX_REPO_PATH, tag)
    THEN <<[prefix |-> prefix, tag |-> tag, advice |-> "use sandbox-"]>>
    ELSE IF check_tag_existence(f, SALTBOX_REPO_PATH, tag)
    THEN IF prefix # ""
         THEN <<[prefix |-> prefix, tag |-> tag, advice |-> "remove prefix"]>>
         ELSE <<>>
    ELSE <<[prefix |-> prefix, tag |-> tag, advice |-> "use -e"]>>

RECURSIVE suggestions_for(_, _, _)
suggestions_for(f, missing_tags, prefix) ==
    IF missing_tags = <<>> THEN <<>>
    ELSE suggestion_for(f, Head(missing_tags), prefix)
         \o suggestions_for(f, Tail(missing_tags), prefix)

\* the lists validate_and_suggest(repo_path, provided_tags, prefix) can
\* return: one for each order list(missing_tags) can have
validate_and_suggest(f, repo_path, provided_tags, prefix, ignore_cache) ==
    IF ignore_cache THEN {<<>>}
    ELSE {suggestions_for(f, missing, prefix)
           : missing \in ListsOf(check_cache(f, repo_path,
                                             provided_tags).missing)}

\* run_ansible_playbook(..., extra_vars) when the playbook ends as outcome:
\* the extra variables are parsed in order (a JSON value that is no object
\* raises ValueError, which nothing catches; a variable that is neither
\* JSON nor key=value is sys.exit(1)), then the playbook is run. started
\* tells whether the playbook was run, returned whether the call returned.
run_ansible_playbook(extra_vars, outcome) ==
    LET offending == {i \in DOMAIN extra_vars :
                         extra_vars[i] \in {"value", "bad"}}
        first == CHOOSE i \in offending : \A j \in offending : i <= j
    IN CASE offending # {} /\ extra_vars[first] = "value" ->
                [started |-> FALSE, returned |-> FALSE, status |-> 1,
                 exc |-> "ValueError"]
         [] offending # {} /\ extra_vars[first] = "bad" ->
                [started |-> FALSE, returned |-> FALSE,
                 status |-> sys_exit(1), exc |-> "SystemExit"]
         [] offending = {} /\ outcome.interrupt ->
                [started |-> TRUE, returned |-> FALSE,
                 status |-> sys_exit(1), exc |-> "SystemExit"]
         [] offending = {} /\ ~outcome.interrupt
                /\ outcome.returncode # 0 ->
                [started |-> TRUE, returned |-> FALSE,
                 status |-> sys_exit(outcome.returncode),
                 exc |-> "SystemExit"]
         [] OTHER ->
                [started |-> TRUE, returned |-> TRUE, status |-> 0,
                 exc |-> "none"]

\* the calls of run_playbook one after the other: groups are the groups
\* that hold tags, in the order of the code; ran are the playbooks run so
\* far; outcomes tell how the playbook of each group ends
RECURSIVE run_playbooks(_, _, _, _)
run_playbooks(groups, extra_vars, outcomes, ran) ==
    IF groups = <<>>
    THEN [ran |-> ran, status |-> 0, exc |-> "none", at |-> "main"]
    ELSE LET group == Head(groups)
             res == run_ansible_playbook(extra_vars, outcomes[group.repo_path])
             now == IF res.started THEN Append(ran, group) ELSE ran
         IN IF res.returned
            THEN run_playbooks(Tail(groups), extra_vars, outcomes, now)
            ELSE [ran |-> now, status |-> res.status, exc |-> res.exc,
                  at |-> "run_ansible_playbook"]

\* mutant: the playbook of Sandbox is run before that of Saltbox_mod
install_groups_sandbox(saltbox_tags, mod_tags, sandbox_tags) ==
    SelectSeq(<<[repo_path |-> SALTBOX_REPO_PATH, tags |-> saltbox_tags],
                [repo_path |-> SANDBOX_REPO_PATH, tags |-> sandbox_tags],
                [repo_path |-> SALTBOXMOD_REPO_PATH, tags |-> mod_tags]>>,
              LAMBDA g : g.tags # <<>>)

\* the groups of handle_install that hold tags, in the order their
\* playbooks are run
install_groups(saltbox_tags, mod_tags, sandbox_tags) ==
    SelectSeq(<<[repo_path |-> SALTBOX_REPO_PATH, tags |-> saltbox_tags],
                [repo_path |-> SALTBOXMOD_REPO_PATH, tags |-> mod_tags],
                [repo_path |-> SANDBOX_REPO_PATH, tags |-> sandbox_tags]>>,
              LAMBDA g : g.tags # <<>>)

\* sb install pieces -e extra_vars. call keeps the request, the issues
\* printed and the playbooks run.
handle_install(pieces, extra_vars, outcomes) ==
    /\ pc \in {"idle", "exit"}
    /\ LET tags == strip_tags(pieces)
           saltbox_tags == group_tags(tags, "")
           mod_tags == group_tags(tags, "mod-")
           sandbox_tags == group_tags(tags, "sandbox-")
           ignore_cache == ignore_cache_of(extra_vars)
           groups == install_groups(saltbox_tags, mod_tags, sandbox_tags)
           reads == ~ignore_cache /\ (saltbox_tags # <<>> \/ sandbox_tags # <<>>)
           cache == get_cached_tags(file, SALTBOX_REPO_PATH)
           request == [op |-> "install", pieces |-> pieces,
                       extra_vars |-> extra_vars, groups |-> groups,
                       ignore_cache |-> ignore_cache]
       IN IF reads /\ cache.exc # "none"
          THEN /\ call' = request @@ [suggestions |-> <<>>, ran |-> <<>>]
               /\ Terminate(1, cache.exc, "get_cached_tags")
          ELSE \E s1 \in IF saltbox_tags = <<>> THEN {<<>>}
                          ELSE validate_and_suggest(file, SALTBOX_REPO_PATH,
                                                    saltbox_tags, "",
                                                    ignore_cache),
                  s2 \in IF sandbox_tags = <<>> THEN {<<>>}
                          ELSE validate_and_suggest(file, SANDBOX_REPO_PATH,
                                                    sandbox_tags, "sandbox-",
                                                    ignore_cache) :
                   LET all_suggestions == s1 \o s2
                       res == run_playbooks(groups, extra_vars, outcomes,
                                            <<>>)
                   IN CASE all_suggestions # <<>> ->
                             /\ call' = request @@
                                    [suggestions |-> all_suggestions,
                                     ran |-> <<>>]
                             /\ Terminate(sys_exit(1), "SystemExit",
                                          "handle_install")
                        [] all_suggestions = <<>> /\ groups = <<>> ->
                             /\ call' = request @@
                                    [suggestions |-> <<>>, ran |-> <<>>]
                             /\ Terminate(sys_exit(1), "SystemExit",
                                          "handle_install")
                        [] OTHER ->
                             /\ call' = request @@
                                    [suggestions |-> <<>>, ran |-> res.ran]
                             /\ Terminate(res.status, res.exc, res.at)
    /\ UNCHANGED <<file, head, put_paths, procs>>

\* the most pieces the tags of one install hold
MaxPieces == 2

PieceLists ==
    UNION {[1..n -> Pieces] : n \in 1..MaxPieces}

ExtraVarLists ==
    {<<>>, <<"cache">>, <<"pair">>, <<"value">>, <<"bad">>,
     <<"pair", "cache">>, <<"cache_true">>, <<"cache", "value">>}

AllRepoPaths == RepoPaths \cup {SALTBOXMOD_REPO_PATH}

\* how the playbooks of one install end: at most one of them fails
OutcomeMaps ==
    {[r \in AllRepoPaths |-> [interrupt |-> FALSE, returncode |-> 0]]}
    \cup {[r \in AllRepoPaths |->
              IF r = bad THEN o ELSE [interrupt |-> FALSE, returncode |-> 0]]
            : bad \in AllRepoPaths,
              o \in PlaybookOutcomes \ {[interrupt |-> FALSE,
                                         returncode |-> 0]}}

\* the entry a repository has when sb install starts: none, or one tag list
EntryOptions == {{}} \cup {{t} : t \in SortedTagLists}

WithEntry(f, repo_path, option) ==
    IF option = {} THEN f
    ELSE update_cache(f, repo_path, "abc", CHOOSE t \in option : TRUE).file

\* the cache files earlier list commands can have left, and a damaged one
InstallFiles ==
    {InvalidText}
    \cup {WithEntry(WithEntry(NoFile, SALTBOX_REPO_PATH, a),
                    SANDBOX_REPO_PATH, b) : a, b \in EntryOptions}

InitInstall ==
    /\ file \in InstallFiles
    /\ call = NoCall
    /\ put_paths = {}
    /\ head = [r \in RepoPaths |-> "abc"]
    /\ pc = "idle"
    /\ repo_info = <<>>
    /\ idx = 0
    /\ command = NoCommand
    /\ output = NoOutput
    /\ handed = NoTags
    /\ exit = NoExit
    /\ procs = NoProcs

\* the process has ended and its exit status was taken; sb can be started
\* again
NewProcess ==
    /\ pc = "exit"
    /\ pc' = "idle"
    /\ call' = NoCall
    /\ exit' = NoExit
    /\ UNCHANGED <<procs, file, head, put_paths, repo_info, idx, command, output,
                   handed>>

NextInstall ==
    \/ /\ pc = "idle"
       /\ \E pieces \in PieceLists, extra_vars \in ExtraVarLists,
             outcomes \in OutcomeMaps :
              handle_install(pieces, extra_vars, outcomes)
    \/ NewProcess

SpecInstall == InitInstall /\ [][NextInstall]_vars

----------------------------------------------------------------------------
(* The commands that use the cache, one process at a time *)

\* the installs asked for between the other commands
OpsPieceLists ==
    {<<[prefix |-> "", name |-> "x"]>>,
     <<[prefix |-> "sandbox-", name |-> "x"], [prefix |-> "", name |-> "y"]>>}

\* the outputs of ansible-playbook --list-tags between the other commands:
\* no TASK TAGS line, no tag, or one tag
OpsOutputs ==
    {out \in AnsibleOutputs : Len(out.tokens) <= 1 /\ "z" \notin Range(out.tokens)}

InitOps ==
    /\ file \in {NoFile, ObjectText(<<>>)}
    /\ call = NoCall
    /\ put_paths = {}
    /\ head \in [RepoPaths -> RepoStates]
    /\ pc = "idle"
    /\ repo_info = <<>>
    /\ idx = 0
    /\ command = NoCommand
    /\ output = NoOutput
    /\ handed = NoTags
    /\ exit = NoExit
    /\ procs = NoProcs

\* main dispatches to the handler of the command given
Dispatch ==
    /\ pc = "idle"
    /\ \/ \E mod_exists \in BOOLEAN : handle_list(mod_exists)
       \/ \E failure \in GitFailures, outcome \in VenvOutcomes :
              handle_update(failure, outcome)
       \/ \E r \in RepoPaths, failure \in GitFailures :
              handle_branch(r, failure)
       \/ \E pieces \in OpsPieceLists, outcomes \in OutcomeMaps :
              handle_install(pieces, <<>>, outcomes)

NextOps ==
    \/ Dispatch
    \/ handle_list_return
    \/ \E failure \in GitFailures : handle_list_prepare(failure)
    \/ \E out \in OpsOutputs, failure \in GitFailures :
           handle_list_parse(out, failure)
    \/ \E r \in RepoPaths, s \in RepoStates : GitChange(r, s)
    \/ NewProcess

SpecOps == InitOps /\ [][NextOps]_vars

----------------------------------------------------------------------------
(* update_cache step by step, in two processes *)

Procs == {1, 2}

Other(p) == CHOOSE q \in Procs : q # p

RECURSIVE SumOf(_)
SumOf(s) == IF s = <<>> THEN 0 ELSE Head(s) + SumOf(Tail(s))

\* the length of ", ".join(parts) when lens are the lengths of the parts
JoinedLen(lens) ==
    SumOf(lens) + (IF Len(lens) = 0 THEN 0 ELSE 2 * (Len(lens) - 1))

\* the length of what json.dump writes for an entry:
\* {"commit": "h", "tags": ["x", "y"]}
entry_len(entry) ==
    24 + Len(entry.commit)
       + 2 + JoinedLen([i \in 1..Len(entry.tags) |-> Len(entry.tags[i]) + 2])

\* the length of the text of the file: {"path": entry, "path": entry}
text_len(f) ==
    IF f.kind = "object"
    THEN 2 + JoinedLen([i \in 1..Len(f.members) |->
                           Len(f.members[i][1]) + 4
                           + entry_len(f.members[i][2])])
    ELSE IF f.kind = "array" THEN 2
    ELSE 0

\* open(SB_CACHE_FILE, "w"): the file is there and its text is empty
open_w(f) ==
    InvalidText

\* json.dump and the close of the file opened by this process: the text
\* goes to the start of the file, whose length was set to 0 when this
\* process opened it; text another process has written since then stays
\* where it is longer
write_from_start(f, text) ==
    IF text_len(f) > text_len(text) THEN InvalidText ELSE text

\* a process that is about to call update_cache(repo_path, commit_hash, tags)
StartOf(repo_path, commit_hash, tags) ==
    [pc |-> "start", repo_path |-> repo_path, commit_hash |-> commit_hash,
     tags |-> tags, read |-> NoFile, overlapped |-> FALSE]

\* the text the call of process p dumps: what it read, with its entry set
DocumentOf(proc) ==
    update_cache(proc.read, proc.repo_path, proc.commit_hash, proc.tags).file

WriterFiles ==
    {NoFile, InvalidText,
     update_cache(NoFile, SANDBOX_REPO_PATH, "abc", <<"x", "y">>).file}

InitWriters ==
    /\ file \in WriterFiles
    /\ procs \in [Procs -> {StartOf(r, "def", t)
                              : r \in RepoPaths, t \in SortedTagLists}]
    /\ call = NoCall
    /\ put_paths = {}
    /\ head = [r \in RepoPaths |-> "def"]
    /\ pc = "idle"
    /\ repo_info = <<>>
    /\ idx = 0
    /\ command = NoCommand
    /\ output = NoOutput
    /\ handed = NoTags
    /\ exit = NoExit

WritersFrame ==
    UNCHANGED <<head, pc, repo_info, idx, command, output, handed, exit>>

\* the try block of update_cache and the assignment after it: the file is
\* read, or is not there; cache[repo_path] = ... raises on what is no dict
uc_read(p) ==
    /\ procs[p].pc = "start"
    /\ LET res == update_cache(file, procs[p].repo_path,
                               procs[p].commit_hash, procs[p].tags)
       IN procs' = [procs EXCEPT ![p].read = file,
                                 ![p].pc = IF res.exc = "none" THEN "read"
                                           ELSE "raised"]
    /\ UNCHANGED <<file, call, put_paths>>
    /\ WritersFrame

\* open(SB_CACHE_FILE, "w")
uc_open(p) ==
    /\ procs[p].pc = "read"
    /\ file' = open_w(file)
    /\ LET both == procs[Other(p)].pc = "opened"
       IN procs' = [q \in Procs |->
                       IF q = p
                       THEN [procs[q] EXCEPT !.pc = "opened",
                                             !.overlapped = both]
                       ELSE [procs[q] EXCEPT !.overlapped = @ \/ both]]
    /\ UNCHANGED <<call, put_paths>>
    /\ WritersFrame

\* json.dump(cache, cache_file) and the end of the with block
uc_dump(p) ==
    /\ procs[p].pc = "opened"
    /\ file' = write_from_start(file, DocumentOf(procs[p]))
    /\ procs' = [procs EXCEPT ![p].pc = "done"]
    /\ call' = [op |-> "update_cache", proc |-> p]
    /\ put_paths' = put_paths \cup {procs[p].repo_path}
    /\ WritersFrame

\* the process stops between open and the end of the dump: it is killed,
\* or the machine goes down
uc_stop(p) ==
    /\ procs[p].pc = "opened"
    /\ procs' = [procs EXCEPT ![p].pc = "stopped"]
    /\ UNCHANGED <<file, call, put_paths>>
    /\ WritersFrame

NextWriters ==
    \E p \in Procs : uc_read(p) \/ uc_open(p) \/ uc_dump(p) \/ uc_stop(p)

SpecWriters == InitWriters /\ [][NextWriters]_vars

----------------------------------------------------------------------------
(* main: accounts file, root, the sb repository, dispatch *)

\* the command lines sb is started with: a command that has a handler,
\* --version, nothing, or what the parser rejects
Argvs == {"list", "--version", "", "--bogus"}

\* an sb process that has just been started. log is what it has done so far.
ProcessOf(root, argv) ==
    [root |-> root, argv |-> argv, pc |-> "config", log |-> <<>>,
     status |-> 0, exc |-> "none"]

\* the process ends: sys.exit(status), or exc is caught by nobody
Ended(proc, event, status, exc) ==
    [proc EXCEPT !.pc = "exit", !.log = Append(@, event),
                 !.status = status, !.exc = exc]

\* the process goes on with the next call of main
Goes(proc, event, next_pc) ==
    [proc EXCEPT !.pc = next_pc, !.log = Append(@, event)]

\* the process that runs: the last one started
Top == procs[Len(procs)]

SetTop(proc) == [procs EXCEPT ![Len(procs)] = proc]

MainFrame ==
    UNCHANGED <<file, call, put_paths, head, pc, repo_info, idx, command,
                output, handed, exit>>

\* parse_and_validate_config(): the accounts file is there, is YAML and
\* holds the user section with its keys (valid), or sys.exit(1)
parse_and_validate_config(proc, valid) ==
    IF valid THEN Goes(proc, "config valid", "root")
    ELSE Ended(proc, "config invalid", sys_exit(1), "SystemExit")

main_config(valid) ==
    /\ procs # <<>> /\ Top.pc = "config"
    /\ procs' = SetTop(parse_and_validate_config(Top, valid))
    /\ MainFrame

\* how sudo ends when it does not run sb: it is not installed, or it
\* refuses (no password, not in sudoers); "runs" when it starts sb
SudoOutcomes == {"runs", "refuses", "missing"}

\* mutant: the exit is inside the try block; a failed relaunch returns
relaunch_as_root_try(proc, sudo, child_status) ==
    CASE proc.root -> Goes(proc, "is root", "repo")
      [] ~proc.root /\ sudo = "missing" ->
             Ended(proc, "sudo missing", 1, "FileNotFoundError")
      [] ~proc.root /\ (sudo = "refuses" \/ child_status # 0) ->
             Goes(proc, "sudo failed", "repo")
      [] OTHER -> Ended(proc, "sudo done", sys_exit(0), "SystemExit")

\* relaunch_as_root() once sudo has ended: sudo says how it went and
\* child_status is the exit status of the sb it ran, if it ran one
relaunch_as_root(proc, sudo, child_status) ==
    CASE proc.root -> Goes(proc, "is root", "repo")
      [] ~proc.root /\ sudo = "missing" ->
             Ended(proc, "sudo missing", 1, "FileNotFoundError")
      [] ~proc.root /\ (sudo = "refuses" \/ child_status # 0) ->
             Ended(proc, "sudo failed", sys_exit(0), "SystemExit")
      [] OTHER -> Ended(proc, "sudo done", sys_exit(0), "SystemExit")

\* relaunch_as_root() in a process that is root, or whose sudo does not
\* run sb
main_relaunch(sudo) ==
    /\ procs # <<>> /\ Top.pc = "root"
    /\ Top.root \/ sudo # "runs"
    /\ procs' = SetTop(relaunch_as_root(Top, sudo, 1))
    /\ MainFrame

\* subprocess.check_call(['sudo', executable_path] + sys.argv[1:]) starts
\* sb as root with the same arguments and waits for it
main_sudo ==
    /\ procs # <<>> /\ Top.pc = "root" /\ ~Top.root
    /\ procs' = Append(SetTop([Top EXCEPT !.pc = "sudo"]),
                       ProcessOf(TRUE, Top.argv))
    /\ MainFrame

\* the sb that sudo ran has ended: check_call returns or raises
\* CalledProcessError, and relaunch_as_root goes on
main_sudo_returned ==
    /\ Len(procs) = 2 /\ Top.pc = "exit"
    /\ procs' = <<relaunch_as_root(procs[1], "runs", Top.status)>>
    /\ call' = [op |-> "sudo", child |-> Top]
    /\ UNCHANGED <<file, put_paths, head, pc, repo_info, idx, command,
                   output, handed, exit>>

\* update_sb(sb_repo_path) called by check_and_update_repo, which has seen
\* the folder: git_fetch_and_reset is its first call and does not return
update_sb(repo_state, failure) == git_fetch_and_reset(repo_state, failure)

\* check_and_update_repo(SB_REPO_PATH). git_ok: the folder is there and git
\* fetch and the two git rev-parse have ended well, with head_hash for HEAD
\* and upstream_hash for master@{upstream}; repo_state and failure are what
\* update_sb finds. OSError and CalledProcessError are caught and turned
\* into sys.exit(1); any other exception leaves main.
check_and_update_repo(proc, git_ok, head_hash, upstream_hash, repo_state, failure) ==
    LET upd == update_sb(repo_state, failure)
    IN CASE ~git_ok ->
                Ended(proc, "sb repo error", sys_exit(1), "SystemExit")
         [] git_ok /\ head_hash = upstream_hash ->
                Goes(proc, "sb current", "dispatch")
         [] git_ok /\ head_hash # upstream_hash
                /\ upd.exc \in {"CalledProcessError", "FileNotFoundError"} ->
                Ended(proc, "sb behind", sys_exit(1), "SystemExit")
         [] OTHER ->
                Ended(proc, "sb behind", upd.status, upd.exc)

main_check_repo(git_ok, head_hash, upstream_hash, repo_state, failure) ==
    /\ procs # <<>> /\ Top.pc = "repo"
    /\ procs' = SetTop(check_and_update_repo(Top, git_ok, head_hash,
                                             upstream_hash, repo_state,
                                             failure))
    /\ MainFrame

\* the exit statuses a handler ends the process with; 0 when it returns
HandlerStatuses == {0, 1}

\* parser.parse_args() and the dispatch of main
dispatch(proc, handler_status) ==
    CASE proc.argv = "--version" ->
             Ended(proc, "handle_version", 0, "none")
      [] proc.argv = "" ->
             Ended(proc, "print_help", 0, "none")
      [] proc.argv = "--bogus" ->
             Ended(proc, "parse_args", sys_exit(2), "SystemExit")
      [] OTHER ->
             Ended(proc, "handler", handler_status,
                   IF handler_status = 0 THEN "none" ELSE "SystemExit")

main_dispatch(handler_status) ==
    /\ procs # <<>> /\ Top.pc = "dispatch"
    /\ procs' = SetTop(dispatch(Top, handler_status))
    /\ MainFrame

\* sb is started from a shell, by root or by another user
main_start(root, argv) ==
    /\ procs = <<>> \/ (Len(procs) = 1 /\ Top.pc = "exit")
    /\ procs' = <<ProcessOf(root, argv)>>
    /\ call' = NoCall
    /\ UNCHANGED <<file, put_paths, head, pc, repo_info, idx, command,
                   output, handed, exit>>

InitMain ==
    /\ file = NoFile
    /\ procs = NoProcs
    /\ call = NoCall
    /\ put_paths = {}
    /\ head = [r \in RepoPaths |-> "abc"]
    /\ pc = "idle"
    /\ repo_info = <<>>
    /\ idx = 0
    /\ command = NoCommand
    /\ output = NoOutput
    /\ handed = NoTags
    /\ exit = NoExit

NextMain ==
    \/ \E root \in BOOLEAN, argv \in Argvs : main_start(root, argv)
    \/ \E valid \in BOOLEAN : main_config(valid)
    \/ \E sudo \in SudoOutcomes : main_relaunch(sudo)
    \/ main_sudo
    \/ main_sudo_returned
    \/ \E git_ok \in BOOLEAN, head_hash \in Hashes, upstream_hash \in Hashes,
          failure \in GitFailures :
           \E repo_state \in {head_hash, "broken"} :
               main_check_repo(git_ok, head_hash, upstream_hash, repo_state,
                               failure)
    \/ \E handler_status \in HandlerStatuses : main_dispatch(handler_status)

SpecMain == InitMain /\ [][NextMain]_vars

\* ---------------------------------------------------------------------
\* version_compare
\* ---------------------------------------------------------------------

\* a version string is a sequence of characters
Digits == <<"0", "1", "2", "3", "4", "5", "6", "7", "8", "9">>

\* longest version string compared
MaxVersionLen == 5

\* the numbers a version is made of, and how many zeros come before one
VersionNumbers == {0, 1, 2, 10}

LeadingZeros == 0..1

LeadingVs == 0..2

PartCounts == 1..3

VersionParts == [zeros : LeadingZeros, n : VersionNumbers]

\* str(n) of a natural number
RECURSIVE str(_)
str(n) ==
    IF n < 10 THEN <<Digits[n + 1]>>
    ELSE str(n \div 10) \o <<Digits[(n % 10) + 1]>>

Repeat(c, k) == [i \in 1..k |-> c]

RECURSIVE join(_, _)
join(strings, sep) ==
    IF strings = <<>> THEN <<>>
    ELSE IF Len(strings) = 1 THEN strings[1]
    ELSE strings[1] \o <<sep>> \o join(Tail(strings), sep)

\* the string of a version: "v"s, then the numbers with dots between
VersionString(version) ==
    Repeat("v", version.vs)
        \o join([i \in 1..Len(version.parts) |->
                    Repeat("0", version.parts[i].zeros)
                        \o str(version.parts[i].n)], ".")

Versions ==
    {version \in [vs : LeadingVs,
                  parts : UNION {[1..k -> VersionParts] : k \in PartCounts}] :
        Len(VersionString(version)) <= MaxVersionLen}

\* v.lstrip('v')
RECURSIVE lstrip(_, _)
lstrip(chars, c) ==
    IF chars # <<>> /\ Head(chars) = c THEN lstrip(Tail(chars), c) ELSE chars

\* v.split('.')
RECURSIVE split(_, _)
split(chars, sep) ==
    IF chars = <<>> THEN << <<>> >>
    ELSE LET rest == split(Tail(chars), sep)
         IN  IF Head(chars) = sep THEN << <<>> >> \o rest
             ELSE << <<Head(chars)>> \o rest[1] >> \o Tail(rest)

\* the strings int() takes: decimal digits, one at least; on any other
\* string int() raises ValueError
is_decimal(chars) ==
    chars # <<>> /\ Range(chars) \subseteq Range(Digits)

\* int(s) of a string of decimal digits
RECURSIVE int(_)
int(chars) ==
    LET last == chars[Len(chars)]
        d    == CHOOSE k \in 0..9 : Digits[k + 1] = last
    IN  IF Len(chars) = 1 THEN d
        ELSE int(SubSeq(chars, 1, Len(chars) - 1)) * 10 + d

\* int(parts[i]) raises
raises_at(parts, i) ==
    i <= Len(parts) /\ ~is_decimal(parts[i])

part_at_missing(parts, i) ==
    IF i <= Len(parts) THEN int(parts[i]) ELSE -1

\* int(parts[i]) if i < len(parts) else 0
part_at(parts, i) ==
    IF i <= Len(parts) THEN int(parts[i]) ELSE 0

\* the loop of version_compare, from index i on
RECURSIVE compare_parts(_, _, _)
compare_parts(v1_parts, v2_parts, i) ==
    IF i > Len(v1_parts) /\ i > Len(v2_parts) THEN 0
    ELSE LET v1_part == part_at(v1_parts, i)
             v2_part == part_at(v2_parts, i)
         IN  IF raises_at(v1_parts, i) \/ raises_at(v2_parts, i)
             THEN "ValueError"
             ELSE IF v1_part < v2_part THEN -1
             ELSE IF v1_part > v2_part THEN 1
             ELSE compare_parts(v1_parts, v2_parts, i + 1)

version_compare(v1, v2) ==
    compare_parts(split(lstrip(v1, "v"), "."), split(lstrip(v2, "v"), "."), 1)

InitVersion ==
    /\ file = NoFile
    /\ procs = NoProcs
    /\ \E a \in Versions, b \in Versions :
           call = [op |-> "versions", a |-> a, b |-> b,
                   v1 |-> VersionString(a), v2 |-> VersionString(b)]
    /\ put_paths = {}
    /\ head = [r \in RepoPaths |-> "abc"]
    /\ pc = "idle"
    /\ repo_info = <<>>
    /\ idx = 0
    /\ command = NoCommand
    /\ output = NoOutput
    /\ handed = NoTags
    /\ exit = NoExit

compare_versions ==
    /\ call.op = "versions"
    /\ call' = [call EXCEPT !.op = "version_compare"]
                   @@ [result |-> version_compare(call.v1, call.v2)]
    /\ UNCHANGED <<file, procs, put_paths>>
    /\ UNCHANGED cli_vars

NextVersion == compare_versions

SpecVersion == InitVersion /\ [][NextVersion]_vars

----------------------------------------------------------------------------
(* The list command with the --list-tags subprocess as a step of its own *)

\* ansible-playbook --list-tags reads the playbook of the checkout that is
\* there while it runs: the commit it ran against is HEAD of that moment.
\* create_subprocess_exec(cwd=repo_path) raises FileNotFoundError when the
\* folder is not there.
list_tags_subprocess(failure) ==
    /\ pc = "await"
    /\ IF RepoState(Repo) = "broken" /\ Repo \in RepoPaths
          /\ failure.exc = "FileNotFoundError"
       THEN /\ Terminate(1, "FileNotFoundError", "create_subprocess_exec")
            /\ call' = call
       ELSE /\ pc' = "communicate"
            /\ call' = [op |-> "list-tags", repo_path |-> Repo,
                        commit |-> RepoState(Repo)]
            /\ UNCHANGED <<repo_info, idx, command, output, handed, exit>>
    /\ UNCHANGED <<file, head, put_paths, procs>>

\* process.communicate() has returned the output out: tag_parser runs on
\* it, then the tags or the error are printed
list_tags_parse(out, failure) ==
    /\ pc = "communicate"
    /\ LET res == parse_output(file, RepoState(Repo), failure, Repo, out)
       IN /\ file' = res.file
          /\ put_paths' = IF res.put THEN put_paths \cup {Repo} ELSE put_paths
          /\ IF res.kind \in {"exit", "raise"}
             THEN Terminate(res.status, res.exc, "parse_output")
             ELSE NextRepo(command, out,
                           [kind |-> res.kind, tags |-> res.tags])
    /\ UNCHANGED <<call, head, procs>>

InitListing ==
    /\ file \in {NoFile, ObjectText(<<>>)}
    /\ call = NoCall
    /\ put_paths = {}
    /\ head \in [RepoPaths -> RepoStates]
    /\ pc = "idle"
    /\ repo_info = <<>>
    /\ idx = 0
    /\ command = NoCommand
    /\ output = NoOutput
    /\ handed = NoTags
    /\ exit = NoExit
    /\ procs = NoProcs

NextListing ==
    \/ \E mod_exists \in BOOLEAN : handle_list(mod_exists)
    \/ handle_list_return
    \/ \E failure \in GitFailures : handle_list_prepare(failure)
    \/ \E failure \in GitFailures : list_tags_subprocess(failure)
    \/ \E out \in OpsOutputs, failure \in GitFailures :
           list_tags_parse(out, failure)
    \/ \E r \in RepoPaths, s \in RepoStates : GitChange(r, s)

SpecListing == InitListing /\ [][NextListing]_vars

----------------------------------------------------------------------------
(* The commands on a cache file that holds an entry for Saltbox_mod *)

\* sb writes no entry for Saltbox_mod: a file that holds one was written
\* by hand or by another program
ModCachedFiles ==
    LET f == update_cache(NoFile, SALTBOXMOD_REPO_PATH, "abc", <<"x">>).file
    IN  {f, update_cache(f, SALTBOX_REPO_PATH, "abc", <<"x">>).file}

InitModCached ==
    /\ file \in ModCachedFiles
    /\ call = NoCall
    /\ put_paths = {}
    /\ head \in [RepoPaths -> RepoStates]
    /\ pc = "idle"
    /\ repo_info = <<>>
    /\ idx = 0
    /\ command = NoCommand
    /\ output = NoOutput
    /\ handed = NoTags
    /\ exit = NoExit
    /\ procs = NoProcs

SpecModCached == InitModCached /\ [][NextOps]_vars

----------------------------------------------------------------------------
(* update_sb and the files of the sb repository *)

\* release.txt: whether the file is there, and of its first line, stripped,
\* what stands where refs/tags/ is looked for and what follows it
Releases ==
    {[there |-> FALSE, prefix |-> "", version |-> ""]}
    \cup [there : {TRUE}, prefix : {"refs/tags/", ""},
          version : {"", "1.0.0"}]

\* what the sb binary and the downloaded file hold
Contents == {"old sb", "new sb", "error page"}

\* sb.sh is there, release.txt, the installed binary sb, and sb.tmp
\* ("none": there is no such file)
SbFiles ==
    [sb_sh : BOOLEAN, release : Releases, binary : {"old sb"},
     tmp : {"none"}]

\* the answer to requests.get(download_url)
Downloads == [status_code : {200, 404}, content : {"new sb", "error page"}]

\* magic.Magic(mime=True).from_file(path): type/subtype of the content
from_file(content) ==
    IF content = "error page"
    THEN [type |-> "text", subtype |-> "html"]
    ELSE [type |-> "application", subtype |-> "x-executable"]

\* update_sb(sb_repo_path) with the files it works on. The git operations
\* come first; what follows them is reached when they return.
update_sb_files(fs, repo_state, failure, download) ==
    LET git == update_sb(repo_state, failure)
        exit1 == [exc |-> "SystemExit", status |-> sys_exit(1), fs |-> fs]
        saved == [fs EXCEPT !.tmp = download.content]
    IN  IF git.exc # "none"
        THEN [exc |-> git.exc, status |-> git.status, fs |-> fs]
        ELSE IF ~fs.sb_sh THEN exit1
        ELSE IF ~fs.release.there THEN exit1
        ELSE IF fs.release.prefix # "refs/tags/" THEN exit1
        ELSE IF fs.release.version = "" THEN exit1
        ELSE IF download.status_code # 200 THEN exit1
        ELSE IF from_file(saved.tmp).type # "application"
        THEN [exit1 EXCEPT !.fs = [saved EXCEPT !.tmp = "none"]]
        ELSE [exc |-> "none", status |-> 0,
              fs |-> [saved EXCEPT !.binary = saved.tmp, !.tmp = "none"]]

\* sb is started as root and check_and_update_repo finds HEAD of the sb
\* repository behind the upstream of master: update_sb runs, and the
\* process ends as check_and_update_repo makes it end
self_update(fs, repo_state, failure, download) ==
    /\ call' = [op |-> "update_sb", fs |-> fs, download |-> download,
                repo_state |-> repo_state,
                ret |-> update_sb_files(fs, repo_state, failure, download),
                proc |-> check_and_update_repo(
                             Goes(Goes(ProcessOf(TRUE, "list"),
                                       "config valid", "root"),
                                  "is root", "repo"),
                             TRUE, "abc", "def", repo_state, failure)]
    /\ UNCHANGED <<file, procs, put_paths>>
    /\ UNCHANGED cli_vars

InitUpdateSb ==
    /\ file = NoFile
    /\ procs = NoProcs
    /\ call = NoCall
    /\ put_paths = {}
    /\ head = [r \in RepoPaths |-> "abc"]
    /\ pc = "idle"
    /\ repo_info = <<>>
    /\ idx = 0
    /\ command = NoCommand
    /\ output = NoOutput
    /\ handed = NoTags
    /\ exit = NoExit

NextUpdateSb ==
    \E fs \in SbFiles, repo_state \in RepoStates, failure \in GitFailures,
       download \in Downloads :
        self_update(fs, repo_state, failure, download)

SpecUpdateSb == InitUpdateSb /\ [][NextUpdateSb]_vars

----------------------------------------------------------------------------
(* The install command on a few cache files *)

\* no cache file, a damaged one, and one with an entry for each repository
RoutingFiles ==
    {NoFile, InvalidText,
     WithEntry(WithEntry(NoFile, SALTBOX_REPO_PATH, {<<"x">>}),
               SANDBOX_REPO_PATH, {<<"y">>})}

InitRouting ==
    /\ file \in RoutingFiles
    /\ call = NoCall
    /\ put_paths = {}
    /\ head = [r \in RepoPaths |-> "abc"]
    /\ pc = "idle"
    /\ repo_info = <<>>
    /\ idx = 0
    /\ command = NoCommand
    /\ output = NoOutput
    /\ handed = NoTags
    /\ exit = NoExit
    /\ procs = NoProcs

SpecRouting == InitRouting /\ [][NextInstall]_vars

----------------------------------------------------------------------------
\* C1: round trip. From a missing or well-formed cache file
\* update_cache(r, h, t) completes, and once it has completed
\* get_cached_tags(r) returns exactly {commit: h, tags: t}, the tags in the
\* same order.
C1_RoundTrip ==
    call.op = "update_cache" =>
        /\ WellFormed(call.pre) => call.exc = "none"
        /\ call.exc = "none" =>
               get_cached_tags(file, call.repo_path)
                   = Return(Entry(call.commit_hash, call.tags))

\* an entry that already existed is overwritten with a two-tag list
C1_Witness ==
    /\ call.op = "update_cache" /\ call.exc = "none"
    /\ call.pre = "object"
    /\ call.tags = <<"y", "x">>
    /\ Len(file.members) = 2
    /\ file.members[1][1] = call.repo_path

\* C2: frame of put. A completed update_cache(r, h, t) leaves the entry of
\* every other repo path as it was, and the key set afterwards is the key
\* set before plus r.
C2_Frame ==
    [][(call'.op = "update_cache" /\ call'.exc = "none") =>
          /\ \A r2 \in RepoPaths \ {call'.repo_path} :
                 EntryOf(file', r2) = EntryOf(file, r2)
          /\ KeysOf(file') = KeysOf(file) \cup {call'.repo_path}]_vars

\* update_cache has added a second key to a file that held another one
C2_Witness ==
    /\ call.op = "update_cache" /\ call.exc = "none"
    /\ Len(file.members) = 2
    /\ file.members[2][1] = call.repo_path

\* the steps of the list command, told by what they change
PrepareStep == pc = "list" /\ idx <= Len(repo_info) /\ (pc' # "list" \/ idx' # idx)

ParseStep == pc = "await" /\ pc' # "await"

\* C3: isFresh. For a repository other than saltbox_mod, with a missing or
\* well-formed cache file and a readable HEAD, prepare_ansible_list_tags
\* makes the freshness test, and the test is true (None is returned as the
\* command) if and only if the cache file holds an entry for the repo path
\* and the entry's commit equals the current HEAD hash.
C3_IsFresh ==
    [][(PrepareStep /\ Repo \in RepoPaths) =>
          /\ (WellFormed(file.kind) /\ head[Repo] \in Hashes) <=> pc' # "exit"
          /\ pc' # "exit" =>
                 ((command' = "None") <=>
                     /\ Repo \in KeysOf(file)
                     /\ EntryOf(file, Repo).commit = head[Repo])]_vars

\* the scenario of the specification: the first repository has the entry
\* {commit: abc, tags: [x, y]}, HEAD is abc and the test was true
C3_Witness ==
    /\ pc = "list" /\ idx = 2 /\ command = "None"
    /\ EntryOf(file, repo_info[1]) = Entry("abc", <<"x", "y">>)
    /\ head[repo_info[1]] = "abc"
    /\ handed = [kind |-> "tags", tags |-> <<"x", "y">>]

\* C4: staleness rule. For a repository other than saltbox_mod,
\* prepare_ansible_list_tags returns no command, and the cached tags are
\* handed over without a subprocess, only when the cached commit equals the
\* current HEAD hash; on a mismatch or a missing entry the command is
\* returned and the subprocess is awaited, and what is then handed over is
\* the tag list parsed from the output of the subprocess (or the error for
\* an output without a TASK TAGS line), whatever the stale entry holds.
C4_Staleness ==
    [][/\ (PrepareStep /\ Repo \in RepoPaths /\ pc' # "exit") =>
             IF Repo \in KeysOf(file) /\ EntryOf(file, Repo).commit = head[Repo]
             THEN /\ command' = "None" /\ pc' = "list"
                  /\ handed' = [kind |-> "tags",
                                tags |-> EntryOf(file, Repo).tags]
             ELSE /\ command' = "list-tags" /\ pc' = "await"
                  /\ handed' = handed
       /\ (ParseStep /\ Repo \in RepoPaths /\ pc' # "exit") =>
             /\ command = "list-tags"
             /\ handed' =
                   IF output'.found
                   THEN [kind |-> "tags",
                         tags |-> SelectSeq(output'.tokens, LAMBDA t : t # "")]
                   ELSE [kind |-> "error", tags |-> <<>>]]_vars

\* the command was returned for the first repository, whose HEAD is def;
\* the output "z, " was parsed and [z] was handed over and cached
C4_Witness ==
    /\ pc = "list" /\ idx = 2 /\ command = "list-tags"
    /\ output = [found |-> TRUE, tokens |-> <<"z", "">>]
    /\ handed = [kind |-> "tags", tags |-> <<"z">>]
    /\ EntryOf(file, repo_info[1]) = Entry("def", <<"z">>)

\* C6: for a repo path that update_cache was never called with, with the
\* cache file missing or well-formed and whatever other paths it holds, the
\* freshness test is false for every hash (prepare_ansible_list_tags returns
\* the command) and check_cache returns (True, []) for every request.
C6_NeverCached ==
    \A r \in RepoPaths \ put_paths :
        WellFormed(file.kind) =>
            /\ \A h \in Hashes :
                   /\ ~commit_is_current(EntryOf(file, r), h)
                   /\ prepare_ansible_list_tags(file, h, CHOOSE g \in GitFailures : TRUE, r).command
            /\ \A t \in RequestLists :
                   check_cache(file, r, t)
                       = [exc |-> "none", ok |-> TRUE, missing |-> {}]
            /\ (pc = "await" /\ Repo = r) => command = "list-tags"

\* the second repository was never cached, the first one is, and
\* prepare_ansible_list_tags has returned the command for the second
C6_Witness ==
    /\ pc = "await" /\ idx = 2
    /\ Repo \notin put_paths
    /\ repo_info[1] \in KeysOf(file)
    /\ command = "list-tags"

\* C10: when git rev-parse HEAD fails where get_git_commit_hash is called
\* (in prepare_ansible_list_tags after the cache was read, in parse_output
\* after a TASK TAGS line was found), the process ends by sys.exit with a
\* status other than 0 and the cache file is as it was; a step taken with
\* an unreadable HEAD never writes the file.
C10_HashFailure ==
    [][/\ (PrepareStep /\ Repo \in RepoPaths /\ WellFormed(file.kind)
           /\ head[Repo] \notin Hashes) =>
             /\ pc' = "exit" /\ exit'.exc = "SystemExit"
             /\ exit'.status \in 1..255
             /\ file' = file /\ put_paths' = put_paths
       /\ (ParseStep /\ Repo \in RepoPaths /\ head[Repo] \notin Hashes) =>
             /\ file' = file /\ put_paths' = put_paths
             /\ \/ pc' = "list" /\ handed'.kind = "error"
                \/ /\ pc' = "exit" /\ exit'.exc = "SystemExit"
                   /\ exit'.status \in 1..255]_vars

\* git was killed by a signal while parse_output read the hash: the process
\* ended with status 247 and the entry written earlier is still there
C10_Witness ==
    /\ pc = "exit" /\ exit.at = "parse_output"
    /\ exit.exc = "SystemExit" /\ exit.status = 247
    /\ EntryOf(file, SANDBOX_REPO_PATH) = Entry("abc", <<"x", "y">>)

\* C5: missingTags. When an entry exists for repo_path, check_cache returns
\* as missing exactly the requested tags that are not cached, each once, and
\* its boolean is true iff there is none; cached [x, y] and requested [x, z]
\* give (False, [z]).
C5_MissingTags ==
    LET entry == EntryOf(file, call.repo_path)
    IN (call.op = "check_cache" /\ call.pre = "object" /\ entry # EmptyDict) =>
          /\ call.exc = "none"
          /\ Range(call.ret[2]) = Range(call.tags) \ Range(entry.tags)
          /\ Len(call.ret[2]) = Cardinality(Range(call.ret[2]))
          /\ call.ret[1] = (Range(call.tags) \subseteq Range(entry.tags))
          /\ (entry.tags = <<"x", "y">> /\ call.tags = <<"x", "z">>) =>
                 call.ret = <<FALSE, <<"z">>>>

\* the scenario of the specification: cached [x, y], requested [x, z]
C5_Witness ==
    /\ call.op = "check_cache" /\ call.exc = "none"
    /\ EntryOf(file, call.repo_path) = Entry("abc", <<"x", "y">>)
    /\ call.tags = <<"x", "z">>
    /\ call.ret = <<FALSE, <<"z">>>>

\* C7: a missing cache file behaves as the empty mapping. get_cached_tags
\* returns the empty entry without raising and the file is still missing;
\* update_cache succeeds and leaves a file holding exactly the one entry
\* r -> {commit: h, tags: t}.
C7_MissingFile ==
    /\ (call.op \in {"get_cached_tags", "check_cache"} /\ call.pre = "missing") =>
           /\ call.exc = "none"
           /\ call.op = "get_cached_tags" => call.ret = EmptyDict
           /\ file = NoFile
    /\ (call.op = "update_cache" /\ call.pre = "missing") =>
           /\ call.exc = "none"
           /\ file = ObjectText(<< <<call.repo_path,
                                     Entry(call.commit_hash, call.tags)>> >>)

\* update_cache was called on a missing file
C7_Witness ==
    /\ call.op = "update_cache" /\ call.pre = "missing"
    /\ call.tags = <<"x", "y">>
    /\ file.kind = "object"

\* C8: a cache file that json.load rejects, or whose top level is not an
\* object, is never read as an empty cache: every call of get_cached_tags,
\* update_cache and check_cache on it raises, and the file is left as it was.
C8_Malformed ==
    [][Malformed(file.kind) =>
          /\ call'.exc \in {"JSONDecodeError", "AttributeError", "TypeError"}
          /\ file' = file]_vars

\* update_cache was called on text that does not parse, and raised
C8_Witness ==
    /\ call.op = "update_cache" /\ call.pre = "invalid"
    /\ call.exc = "JSONDecodeError"
    /\ file = InvalidText

\* C9: idempotence of put. An update_cache(r, h, t) that directly follows a
\* completed update_cache(r, h, t) with the same arguments leaves the file
\* as the first call left it.
C9_Idempotent ==
    [][(call'.op = "update_cache" /\ call'.repeat) =>
          (call'.exc = "none" /\ file' = file)]_vars

\* the same update_cache was made twice in a row on a file with two entries
C9_Witness ==
    /\ call.op = "update_cache" /\ call.repeat /\ call.exc = "none"
    /\ Len(file.members) = 2

\* the subprocess of the repository ended and parse_output returned a tag
\* list, which tag_parser handed to handle_list_async
FreshlyListed == ParseStep /\ pc' = "list" /\ handed'.kind = "tags"

\* C11 as stated: whenever tags are freshly listed for a repository, the
\* entry of its path in the cache file afterwards holds the current commit
\* hash and exactly those tags, for Saltbox, Sandbox and Saltbox_mod alike.
C11_EveryRepository ==
    [][FreshlyListed =>
          EntryOf(file', Repo) = Entry(RepoState(Repo), handed'.tags)]_vars

\* C11 amended: whenever tags are freshly listed for Saltbox or Sandbox,
\* the tags handed over are the non-empty pieces of the output and the
\* entry of the repo path afterwards holds the current HEAD hash and
\* exactly those tags; when they are freshly listed for Saltbox_mod the
\* cache file is left as it was.
C11_FreshlyListed ==
    [][FreshlyListed =>
          /\ handed'.tags = parse_tags(output'.tokens)
          /\ Repo \in RepoPaths =>
                 /\ head[Repo] \in Hashes
                 /\ EntryOf(file', Repo) = Entry(head[Repo], handed'.tags)
          /\ Repo = SALTBOXMOD_REPO_PATH => file' = file]_vars

\* the entry of Sandbox was overwritten after Saltbox's was created: both
\* hold tags that were listed in this run
C11_Witness ==
    /\ pc = "list" /\ idx = 3 /\ command = "list-tags"
    /\ handed = [kind |-> "tags", tags |-> <<"x", "y">>]
    /\ EntryOf(file, SANDBOX_REPO_PATH) = Entry("def", <<"x", "y">>)
    /\ EntryOf(file, SALTBOX_REPO_PATH) = Entry("abc", <<"y">>)

\* the subprocess of the repository ended with output that holds no
\* TASK TAGS line, and tag_parser ran on it
UnparsedStep == \E failure \in GitFailures : handle_list_parse(NoOutput, failure)

\* C13: in the list command, when the output of a repository's subprocess
\* holds no TASK TAGS line, the error is handed over for that repository,
\* the cache file is left as it was, and the loop goes on to the next
\* repository of the same list.
C13_FailedDiscovery ==
    [][UnparsedStep =>
          /\ handed' = [kind |-> "error", tags |-> <<>>]
          /\ file' = file /\ put_paths' = put_paths
          /\ pc' = "list" /\ idx' = idx + 1 /\ repo_info' = repo_info]_vars

\* the discovery failed for Saltbox, which has no entry, and Sandbox was
\* listed and cached after it in the same run
C13_Witness ==
    /\ pc = "list" /\ idx = 3 /\ command = "list-tags"
    /\ handed = [kind |-> "tags", tags |-> <<"x">>]
    /\ KeysOf(file) = {SANDBOX_REPO_PATH}
    /\ EntryOf(file, SANDBOX_REPO_PATH) = Entry("abc", <<"x">>)
    /\ head[SALTBOX_REPO_PATH] = "abc"

\* the entry of repo_path is fresh: it is there and its commit is HEAD
IsFresh(repo_path) ==
    /\ repo_path \in RepoPaths
    /\ repo_path \in KeysOf(file)
    /\ EntryOf(file, repo_path).commit = head[repo_path]

\* C14: in one run of the list command the subprocess is awaited only for a
\* repository whose entry is not fresh; the cache file changes only in the
\* step that parses the output of the awaited subprocess, only in the entry
\* of that repository, and that step ends the pass of the repository (the
\* loop goes to the next index or the process ends). The list holds
\* each repository once, so the file is written at most once for each.
C14_WriteOnce ==
    [][/\ (PrepareStep /\ pc' = "await") => ~IsFresh(Repo)
       /\ (file' # file \/ put_paths' # put_paths) =>
              /\ ParseStep /\ command = "list-tags"
              /\ \A r \in RepoPaths \ {Repo} :
                     EntryOf(file', r) = EntryOf(file, r)
              /\ put_paths' \subseteq put_paths \cup {Repo}
       /\ ParseStep =>
              \/ pc' = "exit"
              \/ pc' = "list" /\ idx' = idx + 1 /\ repo_info' = repo_info
       /\ \A i, j \in DOMAIN repo_info :
              repo_info[i] = repo_info[j] => i = j]_vars

\* one run wrote the entries of both repositories, one after the other,
\* and took the list of Saltbox_mod without a write
C14_Witness ==
    /\ pc = "list" /\ idx = 4 /\ command = "list-tags"
    /\ put_paths = RepoPaths
    /\ EntryOf(file, SALTBOX_REPO_PATH) = Entry("abc", <<"x">>)
    /\ EntryOf(file, SANDBOX_REPO_PATH) = Entry("def", <<"y">>)
    /\ handed = [kind |-> "tags", tags |-> <<"z">>]

\* an install has ended, and it was not bypassed
Validated == call.op = "install" /\ pc = "exit" /\ ~call.ignore_cache

\* the tags install asked the playbook of repo_path for
RequestedOf(repo_path) ==
    UNION {Range(call.groups[i].tags)
            : i \in {j \in DOMAIN call.groups
                        : call.groups[j].repo_path = repo_path}}

\* the requested tags that are missing from an existing entry of their
\* repository, with the prefix they were given with
MissingOf(repo_path, prefix) ==
    IF repo_path \in KeysOf(file)
    THEN {[prefix |-> prefix, tag |-> t]
           : t \in RequestedOf(repo_path)
                    \ Range(EntryOf(file, repo_path).tags)}
    ELSE {}

MissingRequested ==
    MissingOf(SALTBOX_REPO_PATH, "") \cup MissingOf(SANDBOX_REPO_PATH, "sandbox-")

\* the tags the issues printed are about
Reported ==
    {[prefix |-> call.suggestions[i].prefix, tag |-> call.suggestions[i].tag]
      : i \in DOMAIN call.suggestions}

\* C20 as stated, for a cache file that is missing or well-formed: when
\* validation is not bypassed, handle_install exits with status 1 before it
\* has run a playbook if and only if some requested Saltbox or sandbox- tag
\* is missing from an existing entry of its repository, and every missing
\* tag is reported.
C20_AllOrNothing ==
    (Validated /\ WellFormed(file.kind)) =>
        /\ (exit.status = 1 /\ call.ran = <<>>) <=> MissingRequested # {}
        /\ Reported = MissingRequested

\* C20 amended: when validation is not bypassed and the cache file is
\* missing or well-formed, handle_install prints issues and exits with
\* status 1 at the validation, before it has run a playbook, if and only if
\* some requested Saltbox or sandbox- tag is missing from an existing entry
\* of its repository, with one issue for every missing tag; a repository
\* without an entry yields no issue, and when no issue is printed, some
\* group holds tags and the extra variables can be parsed, the first
\* playbook is run. Without a missing tag the exit status is 1 before a
\* playbook has run only when no group holds a tag or an extra variable
\* cannot be parsed.
C20_Validation ==
    (Validated /\ WellFormed(file.kind)) =>
        /\ call.suggestions # <<>> <=> MissingRequested # {}
        /\ call.suggestions # <<>> =>
               /\ exit = [status |-> 1, exc |-> "SystemExit",
                          at |-> "handle_install"]
               /\ call.ran = <<>>
        /\ Reported = MissingRequested
        /\ Len(call.suggestions) = Cardinality(MissingRequested)
        /\ \A r \in RepoPaths \ KeysOf(file) :
               \A i \in DOMAIN call.suggestions :
                   call.suggestions[i].prefix # (IF r = SALTBOX_REPO_PATH
                                                THEN "" ELSE "sandbox-")
        /\ (/\ call.suggestions = <<>>
            /\ call.groups # <<>>
            /\ \A i \in DOMAIN call.extra_vars :
                   call.extra_vars[i] \notin {"value", "bad"}) =>
               /\ call.ran # <<>>
               /\ call.ran[1] = call.groups[1]
        /\ (MissingRequested = {} /\ exit.status = 1 /\ call.ran = <<>>) =>
               \/ call.groups = <<>>
               \/ \E i \in DOMAIN call.extra_vars :
                      call.extra_vars[i] \in {"value", "bad"}

\* sandbox-x is missing from the entry of Sandbox and is a tag of Saltbox,
\* y is a tag of Saltbox: one issue is printed and no playbook is run
C20_Witness ==
    /\ Validated
    /\ call.pieces = <<[prefix |-> "", name |-> "y"],
                       [prefix |-> "sandbox-", name |-> "x"]>>
    /\ KeysOf(file) = RepoPaths
    /\ EntryOf(file, SALTBOX_REPO_PATH).tags = <<"x", "y">>
    /\ EntryOf(file, SANDBOX_REPO_PATH).tags = <<"z">>
    /\ Len(call.suggestions) = 1
    /\ call.suggestions[1].advice = "remove prefix"
    /\ exit.status = 1 /\ call.ran = <<>>

\* C12: across list, install, update and branch commands run one at a time
\* on a cache file that is missing or well-formed, the file stays missing or
\* well-formed, a file that is there stays there, no repo path leaves the
\* file, and the entry of a repo path changes only when the list command
\* has parsed the tags of that repository, into an entry of a commit and
\* a tag list.
C12_NeverDeleted ==
    [][/\ WellFormed(file.kind) /\ WellFormed(file'.kind)
       /\ file.kind = "object" => file'.kind = "object"
       /\ KeysOf(file) \subseteq KeysOf(file')
       /\ \A r \in KeysOf(file') :
              EntryOf(file', r) # EntryOf(file, r) =>
                  /\ ParseStep /\ r = Repo
                  /\ DOMAIN EntryOf(file', r) = {"commit", "tags"}
                  /\ EntryOf(file', r).commit = head[r]]_vars

\* a list run has overwritten the entry of Saltbox, which stays the first
\* member of the file, and has left the entry of Sandbox, which is stale
C12_Witness ==
    /\ pc = "list" /\ idx = 2 /\ command = "list-tags"
    /\ file.kind = "object" /\ Len(file.members) = 2
    /\ file.members[1][1] = SALTBOX_REPO_PATH
    /\ EntryOf(file, SALTBOX_REPO_PATH) = Entry("def", <<"y">>)
    /\ EntryOf(file, SANDBOX_REPO_PATH) = Entry("abc", <<"x">>)
    /\ head[SANDBOX_REPO_PATH] = "def"

\* both calls of update_cache have returned
BothDone == \A p \in Procs : procs[p].pc = "done"

\* C15: last writer wins. When the two calls of update_cache have
\* returned, the file is exactly the mapping dumped by the call whose
\* write came last, which is what that call read with its own entry set.
C15_LastWriterWins ==
    BothDone => file = DocumentOf(procs[call.proc])

\* C16: write atomicity for a single writer. At every point of a call of
\* update_cache that no other call runs beside, also when the process has
\* stopped between opening the file for writing and the end of the dump,
\* the file holds the complete mapping the call read or the complete
\* mapping it writes.
C16_WriteAtomic ==
    \A p \in Procs :
        (procs[Other(p)].pc = "start"
            /\ procs[p].pc \in {"read", "opened", "stopped", "done"}) =>
            file \in {procs[p].read, DocumentOf(procs[p])}

\* the sb processes there are: those that run or wait, and the one sudo
\* ran, once it has ended
Processes ==
    Range(procs) \cup (IF call.op = "sudo" THEN {call.child} ELSE {})

\* what a process logs in check_and_update_repo, and at the dispatch
RepoEvents == {"sb repo error", "sb current", "sb behind"}

DispatchEvents == {"handler", "handle_version", "print_help", "parse_args"}

\* C17: main validates the accounts file, then makes sure it is root, then
\* checks the sb repository, and only then dispatches; when HEAD of the sb
\* repository differs from the upstream of master no handler runs: the
\* process updates sb, relaunches sb with the same arguments and exits
\* with status 0.
C17_MainOrder ==
    \A proc \in Processes :
        /\ Range(proc.log) \cap DispatchEvents # {} =>
               /\ Len(proc.log) = 4
               /\ proc.log[1] = "config valid"
               /\ proc.log[2] = "is root"
               /\ proc.log[3] = "sb current"
        /\ "sb behind" \in Range(proc.log) =>
               /\ Range(proc.log) \cap DispatchEvents = {}
               /\ "sb updated" \in Range(proc.log)
               /\ "relaunched" \in Range(proc.log)
               /\ proc.pc = "exit" /\ proc.status = 0

\* C18: a process that is not root ends in relaunch_as_root, whether sudo
\* ran sb, failed or is not there: it never checks the sb repository and
\* never dispatches, and it ends with status 0 once sudo has ended, whatever
\* the status of the sb that sudo ran; a process that is root goes on
\* without a relaunch.
C18_NonRootExits ==
    \A proc \in Processes :
        /\ ~proc.root =>
               /\ proc.pc \in {"config", "root", "sudo", "exit"}
               /\ Range(proc.log) \cap (RepoEvents \cup DispatchEvents) = {}
               /\ Range(proc.log) \cap {"sudo done", "sudo failed"} # {} =>
                      proc.pc = "exit" /\ proc.status = 0
        /\ proc.root =>
               Range(proc.log) \cap {"sudo done", "sudo failed",
                                      "sudo missing"} = {}
        /\ "is root" \in Range(proc.log) => proc.root

\* the sb that sudo ran ended with status 1 in its handler, and the process
\* that is not root ended with status 0 after it
C18_Witness ==
    /\ call.op = "sudo"
    /\ call.child.root /\ call.child.status = 1
    /\ call.child.log = <<"config valid", "is root", "sb current", "handler">>
    /\ Len(procs) = 1 /\ ~procs[1].root
    /\ procs[1].pc = "exit" /\ procs[1].status = 0
    /\ procs[1].log = <<"config valid", "sudo failed">>

\* the number that orders versions: the numbers of a version, missing ones
\* taken as 0, read as the digits of one number in a radix above them all
Radix == 1 + CHOOSE n \in VersionNumbers : \A m \in VersionNumbers : m <= n

RECURSIVE Weight(_, _)
Weight(parts, k) ==
    IF k = 0 THEN 0
    ELSE Weight(parts, k - 1) * Radix
             + (IF k <= Len(parts) THEN parts[k].n ELSE 0)

WidestVersion == CHOOSE k \in PartCounts : \A j \in PartCounts : j <= k

Sign(n) == IF n < 0 THEN -1 ELSE IF n > 0 THEN 1 ELSE 0

\* C19: version_compare returns -1, 0 or 1 as the numeric order of the
\* dot-separated numbers says, read left to right, whatever "v"s lead the
\* strings and with a missing number taken as 0; comparing the other way
\* round gives the opposite.
C19_NumericOrder ==
    call.op = "version_compare" =>
        /\ call.result \in {-1, 0, 1}
        /\ call.result = Sign(Weight(call.a.parts, WidestVersion)
                                - Weight(call.b.parts, WidestVersion))
        /\ call.result = 0 - version_compare(call.v2, call.v1)

\* "v1.0" compared with "1.0.0": equal
C19_Witness ==
    /\ call.op = "version_compare"
    /\ call.v1 = <<"v", "1", ".", "0">>
    /\ call.v2 = <<"1", ".", "0", ".", "0">>
    /\ call.result = 0

\* a step of sb update on a sound Saltbox repository, with every command of
\* manage_ansible_venv ending well
UpdateStep ==
    /\ head[SALTBOX_REPO_PATH] # "broken"
    /\ \E failure \in GitFailures : handle_update(failure, "done")

\* a step of sb branch or sb sandbox-branch on a sound repository
BranchStep ==
    \E r \in RepoPaths, failure \in GitFailures :
        head[r] # "broken" /\ handle_branch(r, failure)

ListedAndCached ==
    \E out \in OpsOutputs, failure \in GitFailures :
        /\ list_tags_parse(out, failure)
        /\ parse_output(file, RepoState(Repo), failure, Repo, out).put

\* C22: an entry written by tag listing holds, with the tags, the hash of
\* the commit the --list-tags subprocess ran against, also when HEAD of the
\* repository moves between the comparison made before the subprocess and
\* the hash read made after it.
C22_TagsAtCommit ==
    [][ListedAndCached =>
          /\ call.op = "list-tags" /\ call.repo_path = Repo
          /\ EntryOf(file', Repo).commit = call.commit]_vars

\* the text of a cache file, of whatever kind
AnyFiles == {NoFile, InvalidText, ArrayText} \cup ModCachedFiles

\* C23: for Saltbox_mod prepare_ansible_list_tags returns the command,
\* whatever the cache file holds (an entry for that path, text that is no
\* JSON) and whatever git says: the subprocess is awaited in every pass of
\* the list command over Saltbox_mod; and no step of any command changes
\* the entry under that path or calls update_cache with it.
C23_ModNeverCached ==
    [][/\ \A f \in AnyFiles \cup {file}, state \in RepoStates,
             failure \in GitFailures :
              LET res == prepare_ansible_list_tags(f, state, failure,
                                                   SALTBOXMOD_REPO_PATH)
              IN  res.kind = "ok" /\ res.command
       /\ (PrepareStep /\ Repo = SALTBOXMOD_REPO_PATH) =>
              pc' = "await" /\ command' = "list-tags"
       /\ EntryOf(file', SALTBOXMOD_REPO_PATH)
              = EntryOf(file, SALTBOXMOD_REPO_PATH)
       /\ SALTBOXMOD_REPO_PATH \notin put_paths']_vars

\* the tags of Saltbox_mod were listed by the subprocess and differ from
\* those of the entry the file holds for it, which is as it was
C23_Witness ==
    /\ pc = "list" /\ idx = 4 /\ command = "list-tags"
    /\ handed = [kind |-> "tags", tags |-> <<"y">>]
    /\ EntryOf(file, SALTBOXMOD_REPO_PATH) = Entry("abc", <<"x">>)
    /\ put_paths = RepoPaths

\* the process found sb behind and went into update_sb, and no failure of
\* git that sb catches ended it
SelfUpdating(proc) ==
    /\ "sb behind" \in Range(proc.log) /\ proc.pc = "exit"
    /\ ~(proc.exc = "SystemExit" /\ proc.status = 1)

GoodDownload(fs, download) ==
    /\ fs.sb_sh /\ fs.release.there
    /\ fs.release.prefix = "refs/tags/" /\ fs.release.version # ""
    /\ download.status_code = 200
    /\ from_file(download.content).type = "application"

Bypassed ==
    /\ call.op = "install" /\ pc = "exit"
    /\ \E i \in DOMAIN call.extra_vars : call.extra_vars[i] \in CacheVars

\* the install asked for mod- tags only
OnlyMod ==
    /\ call.op = "install" /\ pc = "exit"
    /\ Len(call.groups) = 1
    /\ call.groups[1].repo_path = SALTBOXMOD_REPO_PATH

\* no extra variable of the install is one run_ansible_playbook rejects
ExtraVarsParse ==
    \A i \in DOMAIN call.extra_vars : call.extra_vars[i] \notin {"value", "bad"}

\* the cache was not looked up (a damaged file did not end the process) and
\* no issue was printed
NotValidated ==
    exit.at # "get_cached_tags" /\ call.suggestions = <<>>

\* C26 as stated: when an extra variable starts with
\* sanity_check_use_cache=, whatever follows, handle_install looks up no
\* cache, reports no missing tag and runs the playbooks; mod- tags are
\* never validated against the cache.
C26_BypassRuns ==
    /\ Bypassed => NotValidated /\ call.ran # <<>>
    /\ OnlyMod => NotValidated
    /\ (call.op = "install" /\ pc = "exit") =>
           \A i \in DOMAIN call.suggestions :
               call.suggestions[i].prefix # "mod-"

\* C26 amended: when an extra variable starts with sanity_check_use_cache=,
\* whatever follows, handle_install looks up no cache and reports no
\* missing tag; it then runs the first playbook when some group holds a tag
\* and run_ansible_playbook can parse every extra variable, and otherwise
\* ends with status 1 without running a playbook. mod- tags are never
\* validated against the cache.
C26_Bypass ==
    /\ Bypassed =>
           /\ NotValidated
           /\ call.ignore_cache
           /\ (call.groups # <<>> /\ ExtraVarsParse) =>
                  call.ran # <<>> /\ call.ran[1] = call.groups[1]
           /\ (call.groups = <<>> \/ ~ExtraVarsParse) =>
                  call.ran = <<>> /\ exit.status = 1
    /\ OnlyMod => NotValidated
    /\ (call.op = "install" /\ pc = "exit") =>
           \A i \in DOMAIN call.suggestions :
               call.suggestions[i].prefix # "mod-"

\* sanity_check_use_cache=true was given with the tag y, which the entry
\* of Saltbox does not hold: the playbook of Saltbox was run all the same
C26_Witness ==
    /\ Bypassed
    /\ call.extra_vars = <<"cache_true">>
    /\ call.pieces = <<[prefix |-> "", name |-> "y"]>>
    /\ SALTBOX_REPO_PATH \in KeysOf(file)
    /\ EntryOf(file, SALTBOX_REPO_PATH).tags = <<"x">>
    /\ call.ran = <<[repo_path |-> SALTBOX_REPO_PATH, tags |-> <<"y">>]>>
    /\ exit.status = 0

\* the step is sb install with the playbooks ending as outcomes say
InstallStep(outcomes) ==
    /\ pc = "idle" /\ pc' = "exit" /\ call'.op = "install"
    /\ handle_install(call'.pieces, call'.extra_vars, outcomes)

\* the order the playbooks are run in, and the prefix of each
PlaybookOrder ==
    <<[repo_path |-> SALTBOX_REPO_PATH, prefix |-> ""],
      [repo_path |-> SALTBOXMOD_REPO_PATH, prefix |-> "mod-"],
      [repo_path |-> SANDBOX_REPO_PATH, prefix |-> "sandbox-"]>>

PlaybookRank(repo_path) ==
    CHOOSE i \in DOMAIN PlaybookOrder : PlaybookOrder[i].repo_path = repo_path

PrefixOf(repo_path) == PlaybookOrder[PlaybookRank(repo_path)].prefix

\* the requested tags: the pieces that are not empty, by their place
Requested(pieces) ==
    {i \in DOMAIN pieces : ~(pieces[i].prefix = "" /\ pieces[i].name = "")}

\* the playbook ends well
Succeeds(outcome) == ~outcome.interrupt /\ outcome.returncode = 0

\* the exit status after a playbook that did not end well
FailureStatus(outcome) ==
    IF outcome.interrupt THEN 1 ELSE outcome.returncode % 256

\* C27: every requested tag is in one group only, that of its prefix
\* (mod- Saltbox_mod, sandbox- Sandbox, none Saltbox), without the prefix;
\* the groups that hold tags have their playbooks run in the order Saltbox,
\* Saltbox_mod, Sandbox; a playbook that fails or is aborted ends the
\* process with its status and no playbook is run after it; with no tag in
\* any group no playbook is run and the exit status is 1.
C27_RoutingAndOrder ==
    [][\A outcomes \in OutcomeMaps :
          InstallStep(outcomes) =>
              LET groups == call'.groups
                  ran == call'.ran
                  pieces == call'.pieces
                  GroupsOf(r) == {g \in DOMAIN groups : groups[g].repo_path = r}
                  Sent(r) == {i \in Requested(pieces) :
                                 pieces[i].prefix = PrefixOf(r)}
              IN  /\ \A r \in AllRepoPaths :
                         /\ Cardinality(GroupsOf(r)) <= 1
                         /\ GroupsOf(r) = {} <=> Sent(r) = {}
                         /\ \A g \in GroupsOf(r) :
                                /\ Len(groups[g].tags) = Cardinality(Sent(r))
                                /\ Range(groups[g].tags)
                                       = {pieces[i].name : i \in Sent(r)}
                  /\ \A g, h \in DOMAIN groups :
                         g < h => PlaybookRank(groups[g].repo_path)
                                     < PlaybookRank(groups[h].repo_path)
                  /\ Len(ran) <= Len(groups)
                  /\ \A i \in DOMAIN ran : ran[i] = groups[i]
                  /\ \A i \in DOMAIN ran :
                         LET outcome == outcomes[ran[i].repo_path]
                         IN  IF Succeeds(outcome)
                             THEN \/ i = Len(groups) /\ exit'.status = 0
                                  \/ i < Len(ran)
                             ELSE /\ i = Len(ran)
                                  /\ exit'.status = FailureStatus(outcome)
                                  /\ exit'.at = "run_ansible_playbook"
                  /\ groups = <<>> => ran = <<>> /\ exit'.status = 1]_vars

\* sandbox-y was asked for before x: the playbook of Saltbox was run with
\* x, then that of Sandbox with y
C27_Witness ==
    /\ call.op = "install" /\ pc = "exit"
    /\ call.pieces = <<[prefix |-> "sandbox-", name |-> "y"],
                       [prefix |-> "", name |-> "x"]>>
    /\ call.ran = <<[repo_path |-> SALTBOX_REPO_PATH, tags |-> <<"x">>],
                    [repo_path |-> SANDBOX_REPO_PATH, tags |-> <<"y">>]>>
    /\ exit.status = 0

====
